---- MODULE Spec2Model ----
(***************************************************************************)
(* Replication core of the todo application: the operation journal kept by *)
(* SilenceIDB (store 'operates'), the target store 'todoList', and the     *)
(* request/response synchronisation with its diff-merge (useP2P.diff).     *)
(*                                                                         *)
(* IndexedDB is modelled by what its object stores do:                     *)
(*   'todoList'  keyPath 'id', no key generator (in-line keys);            *)
(*   'operates'  autoIncrement, no keyPath (out-of-line keys); getAll      *)
(*               returns the values in key order, number keys before       *)
(*               string keys.                                              *)
(***************************************************************************)
EXTENDS Integers, Sequences, FiniteSets, TLC

\* ------------------------------------------------------------------ bounds
MaxId  == 2        \* record ids (useId) are drawn from 1..MaxId
MaxTs  == 2        \* timestamps (Date.now) are drawn from 1..MaxTs
MaxOps == 1        \* journaled local mutations of one peer in one behaviour
MaxReq == 3        \* Request messages sent in one behaviour of two peers
MaxReq3 == 6       \* Request messages sent in one behaviour of three peers

Peers == {"p1", "p2", "p3"}
Keys  == {"t1"}            \* item ids of the todo list
Texts == {"milk", "eggs"}  \* item contents
Ids   == 1..MaxId          \* integer order stands for the string order of ids
Ts    == 1..MaxTs

\* --------------------------------------------------------------- constants
OPERATE_ID == "operates"
TODO       == "todoList"
Undefined  == "undefined"
Absent     == "absent"     \* no value stored under the key

Operate == [add |-> "add", put |-> "put", delete |-> "delete", clear |-> "clear"]

MsgType == [requst |-> "REQUEST", response |-> "RESPONSE"]

\* data of a record without data (delete, clear)
NoData == [id |-> Undefined, text |-> Undefined]

VARIABLES
    live,         \* the peers that run the application
    todoList,     \* todoList[p]: object store 'todoList' of p, key -> text
    operates,     \* operates[p]: object store 'operates' of p (the journal)
    connections,  \* connections[p]: remote identities with an open connection
    msgs,         \* messages in flight
    run,          \* run[p][q]: the diff round of p against q's journal
    nops,         \* nops[p]: journaled local mutations of p so far
    nreq,         \* Request messages sent so far
    registry,     \* the signalling server: candidate name -> who claimed it
    client,       \* client[c]: a P2PClient: this.peer and where init stands
    conns,        \* the DataConnections made so far, with the state of
                  \* the dialling end (a) and of the dialled end (b)
    emitted,      \* emitted[c][e]: how often client c has emitted event e
    last,         \* the latest call of init, scanAndConnect or send
    ncalls,       \* calls of scanAndConnect and send, repeated init
    handlers,     \* the handlers map of an emitter: event type -> the
                  \* handlers subscribed, in insertion order
    invoked       \* the latest emit: the handlers it invoked, in order

\* the P2PClient in detail; the synchronisation specifications keep of it
\* the keys of the connection table only
p2pVars == <<registry, client, conns, emitted, last, ncalls>>

\* the subscriptions of one emitter, followed by the dispatch
\* specification alone
emitVars == <<handlers, invoked>>

vars == <<live, todoList, operates, connections, msgs, run, nops, nreq,
          registry, client, conns, emitted, last, ncalls, handlers, invoked>>

\* no emitter is followed in detail
NoEmit ==
    /\ handlers = <<>>
    /\ invoked = <<>>

\* no P2PClient is followed in detail
NoP2P ==
    /\ registry = <<>>
    /\ client = <<>>
    /\ conns = <<>>
    /\ emitted = <<>>
    /\ last = <<>>
    /\ ncalls = 0
    /\ NoEmit

\* ------------------------------------------------------- sequence helpers
RECURSIVE SeqOfIds(_)
\* the ids of S in ascending key order
SeqOfIds(S) ==
    IF S = {} THEN <<>>
    ELSE LET m == CHOOSE x \in S : \A y \in S : x <= y
         IN  <<m>> \o SeqOfIds(S \ {m})

Range(s) == {s[i] : i \in 1..Len(s)}

\* ------------------------------------------------------ IndexedDB stores
\* A fresh database: both stores empty (initDB, versionchangeHandler).
EmptyTodo == [k \in Keys |-> Absent]
EmptyOperates == [auto |-> <<>>, byId |-> [i \in {} |-> 0]]

\* IDBObjectStore.getAll of 'operates': auto-increment keys first, then the
\* string keys in ascending order.
getAllOperates(j) ==
    j.auto \o [n \in 1..Cardinality(DOMAIN j.byId) |->
                   j.byId[SeqOfIds(DOMAIN j.byId)[n]]]

\* SilenceIDB.add on 'todoList': store.add(data). Fails when data has no
\* key at the key path (DataError) or the key is present (ConstraintError).
idbAdd(st, data) ==
    IF data.id = Undefined \/ st[data.id] # Absent
    THEN [ok |-> FALSE, st |-> st]
    ELSE [ok |-> TRUE, st |-> [st EXCEPT ![data.id] = data.text]]

\* a put that takes the key argument as the key of the value
idbPutKeyed(st, data, key) ==
    IF data.id = Undefined
    THEN [ok |-> FALSE, st |-> st]
    ELSE [ok |-> TRUE,
          st |-> [st EXCEPT ![IF key # Undefined THEN key ELSE data.id] = data.text]]

\* SilenceIDB.put on 'todoList': store.put(data, key) when key is given,
\* store.put(data) otherwise. The store has in-line keys, so a key argument
\* is rejected (DataError); without one the value is stored under data.id.
idbPut(st, data, key) ==
    IF key # Undefined \/ data.id = Undefined
    THEN [ok |-> FALSE, st |-> st]
    ELSE [ok |-> TRUE, st |-> [st EXCEPT ![data.id] = data.text]]

\* SilenceIDB.delete on 'todoList': store.delete(key); an absent key is no
\* error, a missing key argument is (DataError).
idbDelete(st, key) ==
    IF key = Undefined
    THEN [ok |-> FALSE, st |-> st]
    ELSE [ok |-> TRUE, st |-> [st EXCEPT ![key] = Absent]]

\* a journal write that stamps the record with a time of its own
putOperateRestamped(j, record, key) ==
    [j EXCEPT !.byId = [i \in DOMAIN j.byId \cup {key} |->
                            IF i = key
                            THEN [record EXCEPT !.timestamp = @ + 1]
                            ELSE j.byId[i]]]

\* SilenceIDB.put on 'operates' with an explicit key: idb.put(OPERATE_ID,
\* operation, operation.id, ...) stores the record under the string key.
putOperate(j, record, key) ==
    [j EXCEPT !.byId = [i \in DOMAIN j.byId \cup {key} |->
                            IF i = key THEN record ELSE j.byId[i]]]

\* SilenceIDB.recordOperation: operateStore.add(record) under the next
\* auto-increment key.
recordOperation(j, id, ts, storeName, operateType, key, data) ==
    [j EXCEPT !.auto = Append(@, [id |-> id, timestamp |-> ts,
                                  storeName |-> storeName,
                                  operateType |-> operateType,
                                  key |-> key, data |-> data])]

\* --------------------------------------------------------------- diff
\* Map.prototype.set: a Map keeps its keys in insertion order; setting a key
\* that is present replaces the value and keeps the position.
mapSet(m, record) ==
    IF \E i \in 1..Len(m) : m[i].id = record.id
    THEN [i \in 1..Len(m) |-> IF m[i].id = record.id THEN record ELSE m[i]]
    ELSE Append(m, record)

RECURSIVE mapFill(_, _)
\* records.forEach(record => map.set(record.id, record))
mapFill(m, records) ==
    IF records = <<>> THEN m
    ELSE mapFill(mapSet(m, Head(records)), Tail(records))

mapHas(m, id) == \E i \in 1..Len(m) : m[i].id = id
mapGet(m, id) == m[CHOOSE i \in 1..Len(m) : m[i].id = id]
mapIds(m) == {m[i].id : i \in 1..Len(m)}

\* 3.1 with the test inverted
remoteOnlyInverted(localMap, remoteMap) ==
    SelectSeq(remoteMap, LAMBDA r : mapHas(localMap, r.id))

\* 3.1: remote records whose id the local map lacks
remoteOnly(localMap, remoteMap) ==
    SelectSeq(remoteMap, LAMBDA r : ~mapHas(localMap, r.id))

\* 3.2: local records whose id the remote map lacks
localOnly(localMap, remoteMap) ==
    SelectSeq(localMap, LAMBDA r : ~mapHas(remoteMap, r.id))

\* 3.3, timestamp comparison of the two records of one id
newer(localRecord, remoteRecord) ==
    IF localRecord.timestamp > remoteRecord.timestamp THEN <<localRecord>>
    ELSE IF remoteRecord.timestamp > localRecord.timestamp THEN <<remoteRecord>>
    ELSE <<>>

\* 3.3, special handling of delete: pushed in addition to the newer record
deleteOverride(localRecord, remoteRecord) ==
    IF remoteRecord.operateType = Operate.delete
       /\ localRecord.operateType # Operate.delete THEN <<remoteRecord>>
    ELSE IF localRecord.operateType = Operate.delete
            /\ remoteRecord.operateType # Operate.delete THEN <<localRecord>>
    ELSE <<>>

RECURSIVE both(_, _, _)
\* 3.3: the loop over localMap for the ids both maps have, from entry i on
both(localMap, remoteMap, i) ==
    IF i > Len(localMap) THEN <<>>
    ELSE (IF mapHas(remoteMap, localMap[i].id)
          THEN newer(localMap[i], mapGet(remoteMap, localMap[i].id))
               \o deleteOverride(localMap[i], mapGet(remoteMap, localMap[i].id))
          ELSE <<>>)
         \o both(localMap, remoteMap, i + 1)

\* no sort: the records stay in the order they were pushed in
insertAtEnd(s, x) == Append(s, x)

\* insertion of x behind the last element whose timestamp is not larger
insertByTs(s, x) ==
    LET n == Cardinality({i \in 1..Len(s) : s[i].timestamp <= x.timestamp})
    IN  SubSeq(s, 1, n) \o <<x>> \o SubSeq(s, n + 1, Len(s))

RECURSIVE sortByTs(_, _)
\* operationsToSync.sort((a, b) => a.timestamp - b.timestamp): ascending and
\* stable (records of equal timestamp keep the order they were pushed in)
sortByTs(sorted, rest) ==
    IF rest = <<>> THEN sorted
    ELSE sortByTs(insertByTs(sorted, Head(rest)), Tail(rest))

\* steps 1 to 4 of diff: the sorted operationsToSync
select(localRecords, remoteRecords) ==
    LET localMap  == mapFill(<<>>, localRecords)
        remoteMap == mapFill(<<>>, remoteRecords)
    IN  sortByTs(<<>>, remoteOnly(localMap, remoteMap)
                       \o localOnly(localMap, remoteMap)
                       \o both(localMap, remoteMap, 1))

\* step 5, the switch on operation.operateType (no case for clear)
applyOperation(st, operation) ==
    IF operation.operateType = Operate.add
    THEN idbAdd(st, operation.data)
    ELSE IF operation.operateType = Operate.put
    THEN idbPut(st, operation.data, operation.key)
    ELSE IF operation.operateType = Operate.delete
    THEN idbDelete(st, operation.key)
    ELSE [ok |-> TRUE, st |-> st]

\* ------------------------------------------- journaled local mutations
\* A peer's database: db.todoList and db.operates.
EmptyDb == [todoList |-> EmptyTodo, operates |-> EmptyOperates]

\* an add that writes the journal record when the request is made, not when
\* it has succeeded
journaledAddEager(db, data, id, ts) ==
    [todoList |-> idbAdd(db.todoList, data).st,
     operates |-> recordOperation(db.operates, id, ts, TODO, Operate.add,
                                  data.id, data)]

\* SilenceIDB.add with recordOperate: the proxy of wrapStore records the
\* operation in the transaction of the add, key = data[keyPath]. A rejected
\* add records nothing.
journaledAdd(db, data, id, ts) ==
    IF idbAdd(db.todoList, data).ok
    THEN [todoList |-> idbAdd(db.todoList, data).st,
          operates |-> recordOperation(db.operates, id, ts, TODO, Operate.add,
                                       data.id, data)]
    ELSE db

\* SilenceIDB.put with recordOperate and no key argument: the proxy records
\* key = data[keyPath]
journaledPut(db, data, id, ts) ==
    IF idbPut(db.todoList, data, Undefined).ok
    THEN [todoList |-> idbPut(db.todoList, data, Undefined).st,
          operates |-> recordOperation(db.operates, id, ts, TODO, Operate.put,
                                       data.id, data)]
    ELSE db

\* SilenceIDB.delete with recordOperate
journaledDelete(db, key, id, ts) ==
    IF idbDelete(db.todoList, key).ok
    THEN [todoList |-> idbDelete(db.todoList, key).st,
          operates |-> recordOperation(db.operates, id, ts, TODO, Operate.delete,
                                       key, NoData)]
    ELSE db

\* useTodoList.clear: idb.clear('todoList') and then idb.clear(OPERATE_ID),
\* both with recordOperate. The second transaction empties the journal (the
\* clear record of the first included) and then records itself.
journaledClear(db, id, ts) ==
    [todoList |-> EmptyTodo,
     operates |-> recordOperation(EmptyOperates, id, ts, OPERATE_ID,
                                  Operate.clear, Undefined, NoData)]

\* ------------------------------------------------------- diff rounds
\* one pass of the loop of step 5: the mutation, then the journal entry; a
\* rejected mutation throws into the catch, which skips the journal entry
applied(db, operation) ==
    IF applyOperation(db.todoList, operation).ok
    THEN [todoList |-> applyOperation(db.todoList, operation).st,
          operates |-> putOperate(db.operates, operation, operation.id)]
    ELSE db

RECURSIVE diffLoop(_, _)
\* the loop of step 5 run to its end
diffLoop(db, operationsToSync) ==
    IF operationsToSync = <<>> THEN db
    ELSE diffLoop(applied(db, Head(operationsToSync)), Tail(operationsToSync))

\* diff(await idb.getAll(OPERATE_ID), data) run to its end with nothing else
\* in between
diff(db, remoteRecords) ==
    diffLoop(db, select(getAllOperates(db.operates), remoteRecords))

\* The locals of one call of diff (localRecords, remoteRecords,
\* operationsToSync, the loop position i) and what it has done so far:
\*   pc      "idle" | "waiting" (Request sent) | "apply" (about to apply
\*           operationsToSync[i]) | "overwrite" (applied, about to write the
\*           journal entry) | "done"
\*   failed  the positions whose application threw (caught and logged)
\* History kept for stating the properties:
\*   n       calls of diff started in this slot
\*   mixed   another operation changed this peer's stores since the call
\*           began
\*   before  the peer's database when the call began
\*   prev    remoteRecords, operationsToSync and failed of the call before
\*           this one, and clean: the stores were left alone from its start
\*           to the start of this one
NoPrev == [remoteRecords |-> <<>>, operationsToSync |-> <<>>, failed |-> {},
           clean |-> FALSE]

IdleRun ==
    [pc |-> "idle", localRecords |-> <<>>, remoteRecords |-> <<>>,
     operationsToSync |-> <<>>, i |-> 0, failed |-> {}, n |-> 0,
     mixed |-> FALSE, before |-> EmptyDb, prev |-> NoPrev]

\* every call of diff at p except the one against q sees its stores changed
disturb(r, p, q) ==
    [r EXCEPT ![p] = [d \in DOMAIN r[p] |->
                         IF d = q \/ r[p][d].n = 0 THEN r[p][d]
                         ELSE [r[p][d] EXCEPT !.mixed = TRUE]]]

\* the loop of step 5 moves on to the next operation, or diff returns
advance(round) ==
    [round EXCEPT !.i = @ + 1,
                  !.pc = IF round.i + 1 > Len(round.operationsToSync)
                         THEN "done" ELSE "apply"]

\* the state a call of diff starts in
started(old, db, remoteRecords) ==
    LET ops == select(getAllOperates(db.operates), remoteRecords)
    IN  [pc |-> IF ops = <<>> THEN "done" ELSE "apply",
         localRecords |-> getAllOperates(db.operates),
         remoteRecords |-> remoteRecords,
         operationsToSync |-> ops, i |-> 1, failed |-> {},
         n |-> old.n + 1, mixed |-> FALSE, before |-> db,
         prev |-> [remoteRecords |-> old.remoteRecords,
                   operationsToSync |-> old.operationsToSync,
                   failed |-> old.failed,
                   clean |-> old.n > 0 /\ old.pc = "waiting" /\ ~old.mixed]]

db(p) == [todoList |-> todoList[p], operates |-> operates[p]]

\* -------------------------------------------------------------- Init
Init ==
    /\ live = {"p1", "p2"}
    /\ todoList = [p \in live |-> EmptyTodo]
    /\ operates = [p \in live |-> EmptyOperates]
    /\ connections = [p \in live |-> {}]
    /\ msgs = {}
    /\ run = [p \in live |-> [q \in live \ {p} |-> IdleRun]]
    /\ nops = [p \in live |-> 0]
    /\ nreq = 0
    /\ NoP2P

\* a journaled mutation of p that took db(p) to next
local(p, next) ==
    /\ nops[p] < MaxOps
    /\ next # db(p)
    /\ todoList' = [todoList EXCEPT ![p] = next.todoList]
    /\ operates' = [operates EXCEPT ![p] = next.operates]
    /\ run' = disturb(run, p, p)
    /\ nops' = [nops EXCEPT ![p] = @ + 1]
    /\ UNCHANGED <<live, connections, msgs, nreq>>
    /\ UNCHANGED p2pVars
    /\ UNCHANGED emitVars

\* useTodoList.add: idb.add('todoList', {text, done, id})
add(p, k, text, id, ts) ==
    local(p, journaledAdd(db(p), [id |-> k, text |-> text], id, ts))

\* useTodoList.remove: idb.delete('todoList', id)
remove(p, k, id, ts) ==
    local(p, journaledDelete(db(p), k, id, ts))

\* useTodoList.update: idb.put('todoList', {id, ...data})
update(p, k, text, id, ts) ==
    local(p, journaledPut(db(p), [id |-> k, text |-> text], id, ts))

\* useTodoList.clear
clear(p, id, ts) ==
    local(p, journaledClear(db(p), id, ts))

\* ------------------------------------------------------------- sync
Request(from, to) ==
    [type |-> MsgType.requst, from |-> from, to |-> to, id |-> OPERATE_ID,
     data |-> <<>>]

Response(from, to, data) ==
    [type |-> MsgType.response, from |-> from, to |-> to, id |-> OPERATE_ID,
     data |-> data]

\* reqOperates: a Request for the journal to every connected device. One
\* diff round per remote peer at a time is modelled.
reqOperates(p, devices) ==
    /\ nreq + Cardinality(devices) <= (IF live = Peers THEN MaxReq3 ELSE MaxReq)
    /\ \A d \in devices : run[p][d].pc \in {"idle", "done"}
    /\ msgs' = msgs \cup {Request(p, d) : d \in devices}
    /\ run' = [run EXCEPT ![p] = [d \in DOMAIN run[p] |->
                  IF d \in devices THEN [run[p][d] EXCEPT !.pc = "waiting"]
                  ELSE run[p][d]]]
    /\ nreq' = nreq + Cardinality(devices)

\* the connection of p with q opens: P2PClient adds it to the table and
\* emits Connect, whose handler is reqOperates
connOpen(p, q) ==
    /\ q # p
    /\ q \notin connections[p]
    /\ connections' = [connections EXCEPT ![p] = @ \cup {q}]
    /\ reqOperates(p, connections[p] \cup {q})
    /\ UNCHANGED <<live, todoList, operates, nops>>
    /\ UNCHANGED p2pVars
    /\ UNCHANGED emitVars

\* reqOperates called again by the application (it is exported by useP2P)
sync(p) ==
    /\ connections[p] # {}
    /\ reqOperates(p, connections[p])
    /\ UNCHANGED <<live, todoList, operates, connections, nops>>
    /\ UNCHANGED p2pVars
    /\ UNCHANGED emitVars

\* dataHandler, type REQUEST: answer with the contents of the store. Data
\* of a connection is delivered once the connection is open on this side.
dataHandlerRequest(m) ==
    /\ m.type = MsgType.requst
    /\ m.from \in connections[m.to]
    /\ msgs' = (msgs \ {m}) \cup
               {Response(m.to, m.from, getAllOperates(operates[m.to]))}
    /\ UNCHANGED <<live, todoList, operates, connections, run, nops, nreq>>
    /\ UNCHANGED p2pVars
    /\ UNCHANGED emitVars

\* a diff that answers the Response with the local journal, for the other
\* side to merge
dataHandlerResponsePush(m) ==
    /\ m.type = MsgType.response
    /\ run[m.to][m.from].pc = "waiting"
    /\ msgs' = (msgs \ {m}) \cup
               {Response(m.to, m.from, getAllOperates(operates[m.to]))}
    /\ run' = [run EXCEPT ![m.to][m.from] = started(@, db(m.to), m.data)]
    /\ UNCHANGED <<live, todoList, operates, connections, nops, nreq>>
    /\ UNCHANGED p2pVars
    /\ UNCHANGED emitVars

\* dataHandler, type RESPONSE with id 'operates': diff(await
\* idb.getAll(OPERATE_ID), data) runs steps 1 to 4 and enters the loop
dataHandlerResponse(m) ==
    /\ m.type = MsgType.response
    /\ run[m.to][m.from].pc = "waiting"
    /\ msgs' = msgs \ {m}
    /\ run' = [run EXCEPT ![m.to][m.from] = started(@, db(m.to), m.data)]
    /\ UNCHANGED <<live, todoList, operates, connections, nops, nreq>>
    /\ UNCHANGED p2pVars
    /\ UNCHANGED emitVars

\* a silent mutation that records itself all the same (the recordOperate
\* option ignored)
silentApplyRecording(d, operation) ==
    [ok |-> applyOperation(d.todoList, operation).ok,
     db |-> [todoList |-> applyOperation(d.todoList, operation).st,
             operates |-> IF applyOperation(d.todoList, operation).ok
                          THEN recordOperation(d.operates, operation.id,
                                   operation.timestamp, operation.storeName,
                                   operation.operateType, operation.key,
                                   operation.data)
                          ELSE d.operates]]

\* A mutation with {recordOperate: false}: tx opens the transaction on the
\* target store alone and the proxy of wrapStore records nothing.
silentApply(d, operation) ==
    [ok |-> applyOperation(d.todoList, operation).ok,
     db |-> [todoList |-> applyOperation(d.todoList, operation).st,
             operates |-> d.operates]]

\* a catch placed around the whole loop: the first failure ends diff
caughtAbort(round) ==
    [round EXCEPT !.failed = @ \cup {round.i}, !.pc = "done"]

\* the catch of step 5: the failure is logged and the loop goes on
caught(round) == advance([round EXCEPT !.failed = @ \cup {round.i}])

\* step 5, first await: the mutation of the target store. A rejected
\* mutation throws into the catch, which skips the journal write.
applyStep(p, q) ==
    /\ run[p][q].pc = "apply"
    /\ LET round == run[p][q]
           res == silentApply(db(p), round.operationsToSync[round.i])
       IN  /\ todoList' = [todoList EXCEPT ![p] = res.db.todoList]
           /\ operates' = [operates EXCEPT ![p] = res.db.operates]
           /\ run' = [disturb(run, p, q) EXCEPT ![p][q] =
                  IF res.ok THEN [round EXCEPT !.pc = "overwrite"]
                  ELSE caught(round)]
    /\ UNCHANGED <<live, connections, msgs, nops, nreq>>
    /\ UNCHANGED p2pVars
    /\ UNCHANGED emitVars

\* step 5, second await: idb.put(OPERATE_ID, operation, operation.id)
overwriteStep(p, q) ==
    /\ run[p][q].pc = "overwrite"
    /\ LET round == run[p][q]
           operation == round.operationsToSync[round.i]
       IN  /\ operates' = [operates EXCEPT ![p] =
                  putOperate(@, operation, operation.id)]
           /\ run' = [disturb(run, p, q) EXCEPT ![p][q] = advance(round)]
    /\ UNCHANGED <<live, todoList, connections, msgs, nops, nreq>>
    /\ UNCHANGED p2pVars
    /\ UNCHANGED emitVars

NextLocal ==
    \/ \E p \in live, k \in Keys, text \in Texts, id \in Ids, ts \in Ts :
           add(p, k, text, id, ts)
    \/ \E p \in live, k \in Keys, id \in Ids, ts \in Ts : remove(p, k, id, ts)
    \/ \E p \in live, k \in Keys, text \in Texts, id \in Ids, ts \in Ts :
           update(p, k, text, id, ts)
    \/ \E p \in live, id \in Ids, ts \in Ts : clear(p, id, ts)

NextSync ==
    \/ \E p \in live : \E q \in live \ {p} : connOpen(p, q)
    \/ \E p \in live : sync(p)
    \/ \E m \in msgs : dataHandlerRequest(m)
    \/ \E m \in msgs : dataHandlerResponse(m)
    \/ \E p \in live : \E q \in live \ {p} : applyStep(p, q)
    \/ \E p \in live : \E q \in live \ {p} : overwriteStep(p, q)

Next == NextLocal \/ NextSync

Spec == Init /\ [][Next]_vars

\* Two peers with the stores dbA and dbB, nothing connected yet and no
\* further local mutation to come.
TwoPeers(dbA, dbB) ==
    /\ live = {"p1", "p2"}
    /\ todoList = [p \in {"p1", "p2"} |->
                      IF p = "p1" THEN dbA.todoList ELSE dbB.todoList]
    /\ operates = [p \in {"p1", "p2"} |->
                      IF p = "p1" THEN dbA.operates ELSE dbB.operates]
    /\ connections = [p \in {"p1", "p2"} |-> {}]
    /\ msgs = {}
    /\ run = [p \in {"p1", "p2"} |-> [q \in {"p1", "p2"} \ {p} |-> IdleRun]]
    /\ nops = [p \in {"p1", "p2"} |-> MaxOps]
    /\ nreq = 0
    /\ NoP2P

\* Both peers hold t1: one of them added it and the other merged the
\* creator's journal. Then A (p1) removed t1 at timestamp 20 and B (p2)
\* updated it at timestamp 25, independently (the three records have
\* different ids); then they synchronise.
InitDeleteVsPut ==
    \E creator \in {"p1", "p2"}, text \in Texts, edited \in Texts,
       a \in 1..(MaxId + 1), d \in 1..(MaxId + 1), u \in 1..(MaxId + 1) :
      /\ a # d /\ a # u /\ d # u
      /\
        LET made   == journaledAdd(EmptyDb, [id |-> "t1", text |-> text], a, 10)
            pulled == diff(EmptyDb, getAllOperates(made.operates))
            dbA    == IF creator = "p1" THEN made ELSE pulled
            dbB    == IF creator = "p1" THEN pulled ELSE made
        IN  TwoPeers(journaledDelete(dbA, "t1", d, 20),
                     journaledPut(dbB, [id |-> "t1", text |-> edited], u, 25))

SpecDeleteVsPut == InitDeleteVsPut /\ [][NextSync]_vars

\* A (p1) added t1 at timestamp 10, then maybe updated it at timestamp 20
\* and maybe removed it at timestamp 30. B (p2) has a fresh database, or one
\* emptied by clear() at timestamp 15. No record id is used twice.
InitHistory ==
    \E text \in Texts, edit \in Texts \cup {"none"}, removed \in BOOLEAN,
       cleared \in BOOLEAN,
       a \in 1..(MaxId + 2), u \in 1..(MaxId + 2), d \in 1..(MaxId + 2),
       c \in 1..(MaxId + 2) :
      /\ Cardinality({a, u, d, c}) = 4
      /\
        LET made   == journaledAdd(EmptyDb, [id |-> "t1", text |-> text], a, 10)
            edited == IF edit = "none" THEN made
                      ELSE journaledPut(made, [id |-> "t1", text |-> edit], u, 20)
            dbA    == IF removed THEN journaledDelete(edited, "t1", d, 30)
                      ELSE edited
            dbB    == IF cleared THEN journaledClear(EmptyDb, c, 15) ELSE EmptyDb
        IN  TwoPeers(dbA, dbB)

SpecHistory == InitHistory /\ [][NextSync]_vars

\* Three peers, connected with each other, that all hold t1 = milk: p3
\* added it and p1 and p2 merged p3's journal when they connected. Then p1
\* updated t1 to eggs at timestamp 20 and p2, independently, updated or
\* removed t1 at timestamp 25. No further local mutation is to come; the
\* peers synchronise by calling reqOperates.
InitThreePeers ==
    \E change1 \in {"eggs"}, change2 \in {"milk", Absent} :
        LET made    == journaledAdd(EmptyDb, [id |-> "t1", text |-> "milk"], 1, 10)
            pulled  == diff(EmptyDb, getAllOperates(made.operates))
            changed(d, to, id, ts) ==
                IF to = Absent THEN journaledDelete(d, "t1", id, ts)
                ELSE journaledPut(d, [id |-> "t1", text |-> to], id, ts)
            dbs == [p \in Peers |->
                       IF p = "p1" THEN changed(pulled, change1, 2, 20)
                       ELSE IF p = "p2" THEN changed(pulled, change2, MaxId + 1, 25)
                       ELSE made]
        IN  /\ live = Peers
            /\ todoList = [p \in Peers |-> dbs[p].todoList]
            /\ operates = [p \in Peers |-> dbs[p].operates]
            /\ connections = [p \in Peers |-> Peers \ {p}]
            /\ msgs = {}
            /\ run = [p \in Peers |-> [q \in Peers \ {p} |-> IdleRun]]
            /\ nops = [p \in Peers |-> MaxOps]
            /\ nreq = 0
            /\ NoP2P

NextThreePeers ==
    \/ \E p \in live : sync(p)
    \/ \E m \in msgs : dataHandlerRequest(m)
    \/ \E m \in msgs : dataHandlerResponse(m)
    \/ \E p \in live : \E q \in live \ {p} : applyStep(p, q)
    \/ \E p \in live : \E q \in live \ {p} : overwriteStep(p, q)

SpecThreePeers == InitThreePeers /\ [][NextThreePeers]_vars

\* ------------------------------------------------------------ claims
\* the id-keyed view of a journal that diff works on
journalMap(p) == mapFill(<<>>, getAllOperates(operates[p]))

\* a call of diff has returned and nothing else has touched the peer's
\* stores since it began
Clean(round) == round.pc = "done" /\ ~round.mixed

\* the record the loop of step 5 applied last for the id, as a sequence
\* (empty when none of the id's records was applied)
lastApplied(round, id) ==
    LET S == {i \in 1..Len(round.operationsToSync) :
                 /\ round.operationsToSync[i].id = id
                 /\ i \notin round.failed}
    IN  IF S = {} THEN <<>>
        ELSE <<round.operationsToSync[CHOOSE i \in S : \A j \in S : j <= i]>>

\* exactly one of the two records is a Delete
oneDelete(a, b) ==
    (a.operateType = Operate.delete) # (b.operateType = Operate.delete)

theDelete(a, b) == IF a.operateType = Operate.delete THEN a ELSE b

\* C1: for every id in both journals with exactly one Delete record, after
\* diff the last mutation applied for the id is the Delete and the local
\* journal entry of the id is the Delete record.
C1_DeleteOverride ==
    \A p \in live : \A q \in live \ {p} :
        Clean(run[p][q]) =>
            LET localMap  == mapFill(<<>>, run[p][q].localRecords)
                remoteMap == mapFill(<<>>, run[p][q].remoteRecords)
            IN  \A id \in mapIds(localMap) \cap mapIds(remoteMap) :
                    oneDelete(mapGet(localMap, id), mapGet(remoteMap, id)) =>
                        LET d == theDelete(mapGet(localMap, id), mapGet(remoteMap, id))
                        IN  /\ lastApplied(run[p][q], id) = <<d>>
                            /\ mapGet(journalMap(p), id) = d

\* both peers have run diff against the other's journal
BothMerged ==
    /\ run["p1"]["p2"].pc = "done"
    /\ run["p2"]["p1"].pc = "done"

\* C2: A journaled Delete(t1) at 20, B journaled Put(t1) at 25; once both
\* have merged the other's journal, t1 is in neither target store.
C2_DeleteBeatsLaterPut ==
    BothMerged =>
        /\ todoList["p1"]["t1"] = Absent
        /\ todoList["p2"]["t1"] = Absent

\* C2 witness: both merges are done, A's merge had B's Put of timestamp 25
\* in the remote journal and B's merge had A's Delete of timestamp 20
C2_Witness ==
    /\ BothMerged
    /\ \E r \in Range(run["p1"]["p2"].remoteRecords) :
           r.operateType = Operate.put /\ r.timestamp = 25
    /\ \E r \in Range(run["p2"]["p1"].remoteRecords) :
           r.operateType = Operate.delete /\ r.timestamp = 20
    /\ todoList["p1"]["t1"] = Absent
    /\ todoList["p2"]["t1"] = Absent

\* each peer has merged exactly the journal the other had when the other
\* began its own merge, and no local mutation has come in between
MutualMerge ==
    /\ Clean(run["p1"]["p2"])
    /\ Clean(run["p2"]["p1"])
    /\ run["p1"]["p2"].remoteRecords = run["p2"]["p1"].localRecords
    /\ run["p2"]["p1"].remoteRecords = run["p1"]["p2"].localRecords

\* the records the two merges worked on
mergedRecords ==
    Range(run["p1"]["p2"].localRecords) \cup Range(run["p1"]["p2"].remoteRecords)
    \cup Range(run["p2"]["p1"].localRecords) \cup Range(run["p2"]["p1"].remoteRecords)

\* record ids are unique and every item was created once, before it was
\* edited or removed: two records of one id are the same record, so are two
\* Add records of one key, and a Put or Delete record has the Add record of
\* its key among the records
NoCollision(records) ==
    /\ \A r \in records : \A s \in records :
           (r.id = s.id \/ (r.operateType = Operate.add
                            /\ s.operateType = Operate.add /\ r.key = s.key))
               => r = s
    /\ \A r \in records :
           r.operateType \in {Operate.put, Operate.delete} =>
               \E s \in records : s.operateType = Operate.add /\ s.key = r.key

\* C3: after each of two peers has merged the other's journal, both
\* journals hold the same record for every id either has seen and both
\* target stores are equal (stated for journals with unique record ids and
\* items created once, where the claim is at its strongest).
C3_TwoPeerConvergence ==
    (MutualMerge /\ NoCollision(mergedRecords)) =>
        /\ todoList["p1"] = todoList["p2"]
        /\ \A id \in mapIds(journalMap("p1")) \cup mapIds(journalMap("p2")) :
               /\ mapHas(journalMap("p1"), id)
               /\ mapHas(journalMap("p2"), id)
               /\ mapGet(journalMap("p1"), id) = mapGet(journalMap("p2"), id)

\* every peer has merged the journal of every other peer
AllMerged ==
    \A p \in live : \A q \in live \ {p} :
        run[p][q].n > 0 /\ run[p][q].pc = "done"

\* C4: three peers with conflicting operations on one key; once every peer
\* has pulled and merged every other peer's journal, all target stores are
\* equal, whatever the order of the Responses and of the merge rounds.
C4_OrderIndependentConvergence ==
    AllMerged => \A p \in live : \A q \in live : todoList[p] = todoList[q]

\* the records diff selected for the id, in the order of operationsToSync
selected(round, id) == SelectSeq(round.operationsToSync, LAMBDA r : r.id = id)

\* the record of the larger timestamp
winner(a, b) == IF a.timestamp > b.timestamp THEN a ELSE b

\* C5: for every id in both journals where the delete-override does not
\* apply, diff selects exactly the record of the larger timestamp and after
\* the merge the local journal entry of the id is that record; with equal
\* timestamps it selects no record of the id.
C5_TimestampWinner ==
    \A p \in live : \A q \in live \ {p} :
        Clean(run[p][q]) =>
            LET localMap  == mapFill(<<>>, run[p][q].localRecords)
                remoteMap == mapFill(<<>>, run[p][q].remoteRecords)
            IN  \A id \in mapIds(localMap) \cap mapIds(remoteMap) :
                    LET l == mapGet(localMap, id)
                        r == mapGet(remoteMap, id)
                    IN  ~oneDelete(l, r) =>
                            IF l.timestamp = r.timestamp
                            THEN selected(run[p][q], id) = <<>>
                            ELSE /\ selected(run[p][q], id) = <<winner(l, r)>>
                                 /\ mapGet(journalMap(p), id) = winner(l, r)

\* the id-keyed maps of the two journals a call of diff was given
localMapOf(round)  == mapFill(<<>>, round.localRecords)
remoteMapOf(round) == mapFill(<<>>, round.remoteRecords)

\* the two journals have no id in common
Disjoint(round) == mapIds(localMapOf(round)) \cap mapIds(remoteMapOf(round)) = {}

\* C6: for journals without a common id diff selects exactly the union of
\* the two record sets, every record once; and after both peers have merged
\* the other's journal each journal has every id of the union.
C6_DisjointJournals ==
    /\ \A p \in live : \A q \in live \ {p} :
           (run[p][q].n > 0 /\ Disjoint(run[p][q])) =>
               /\ Range(run[p][q].operationsToSync) =
                      Range(localMapOf(run[p][q])) \cup Range(remoteMapOf(run[p][q]))
               /\ Len(run[p][q].operationsToSync) =
                      Len(localMapOf(run[p][q])) + Len(remoteMapOf(run[p][q]))
    /\ (MutualMerge /\ Disjoint(run["p1"]["p2"])) =>
           \A id \in mapIds(localMapOf(run["p1"]["p2"]))
                        \cup mapIds(remoteMapOf(run["p1"]["p2"])) :
               mapHas(journalMap("p1"), id) /\ mapHas(journalMap("p2"), id)

\* the remote journal of the round holds the Add record r of an item and
\* nothing else about the item, and the local journal lacks the id of r
PullsAdd(round, r) ==
    /\ r.operateType = Operate.add
    /\ \A s \in Range(round.remoteRecords) : s.key = r.key => s = r
    /\ ~mapHas(localMapOf(round), r.id)

\* C7: A journaled an Add of t1; B, whose journal lacks that record,
\* connected, requested A's journal and ran diff on the Response. Then B's
\* target store contains the item and B's journal holds the record with A's
\* id and timestamp, verbatim.
C7_EndToEndPull ==
    \A p \in live : \A q \in live \ {p} :
        Clean(run[p][q]) =>
            \A r \in Range(run[p][q].remoteRecords) :
                PullsAdd(run[p][q], r) =>
                    /\ todoList[p][r.key] = r.data.text
                    /\ mapHas(journalMap(p), r.id)
                    /\ mapGet(journalMap(p), r.id) = r

\* C7 witness: B (p2) has pulled A's Add of t1 into a store that was fresh
\* or cleared
C7_Witness ==
    /\ Clean(run["p2"]["p1"])
    /\ \E r \in Range(run["p2"]["p1"].remoteRecords) :
           /\ PullsAdd(run["p2"]["p1"], r)
           /\ r \in Range(operates["p1"].auto)
           /\ todoList["p2"][r.key] = r.data.text
           /\ mapGet(journalMap("p2"), r.id) = r

\* the call of diff is the second of two calls in a row with the same
\* remote journal, and nothing but the two calls has touched the stores
\* since the first began
SecondRun(round) ==
    /\ Clean(round)
    /\ round.prev.clean
    /\ round.prev.remoteRecords = round.remoteRecords

\* C8: a second diff with the same remote journal as the first leaves the
\* target store in the state it had after the first.
C8_MergeIdempotent ==
    \A p \in live : \A q \in live \ {p} :
        SecondRun(run[p][q]) => todoList[p] = run[p][q].before.todoList

\* the ids of the records of a sequence
idsOf(records) == {records[i].id : i \in 1..Len(records)}

\* C9: a further diff of the updated local journal against the same,
\* unchanged remote journal selects none of the ids the first run selected.
C9_FixedPoint ==
    \A p \in live : \A q \in live \ {p} :
        SecondRun(run[p][q]) =>
            idsOf(run[p][q].operationsToSync)
                \cap idsOf(run[p][q].prev.operationsToSync) = {}

\* the mutation of the record and its journal entry, both carried out
kept(d, operation) ==
    [todoList |-> applyOperation(d.todoList, operation).st,
     operates |-> putOperate(d.operates, operation, operation.id)]

RECURSIVE replay(_, _, _, _)
\* the database after the records of the batch from position i on, those at
\* the positions in skipped left out, have each been carried out on d
replay(d, batch, i, skipped) ==
    IF i > Len(batch) THEN d
    ELSE replay(IF i \in skipped THEN d ELSE kept(d, batch[i]),
                batch, i + 1, skipped)

\* C10: a record whose application fails is skipped and nothing else is:
\* when diff returns, the store and the journal hold the effects of every
\* other record of the batch, of those before the failure and of those
\* after it, and the loop has gone through the whole batch.
C10_FailureIsolation ==
    \A p \in live : \A q \in live \ {p} :
        Clean(run[p][q]) =>
            /\ run[p][q].i = Len(run[p][q].operationsToSync) + 1
            /\ db(p) = replay(run[p][q].before, run[p][q].operationsToSync, 1,
                              run[p][q].failed)

\* C10 witness: diff has returned from a batch in which a record was
\* applied, a later one failed and one after that was applied
C10_Witness ==
    \E p \in live : \E q \in live \ {p} :
        /\ Clean(run[p][q])
        /\ \E e \in 1..Len(run[p][q].operationsToSync) :
           \E f \in run[p][q].failed :
           \E j \in 1..Len(run[p][q].operationsToSync) :
               /\ e < f /\ f < j
               /\ e \notin run[p][q].failed /\ j \notin run[p][q].failed
               /\ mapGet(journalMap(p), run[p][q].operationsToSync[j].id)
                      = run[p][q].operationsToSync[j]
               /\ mapGet(journalMap(p), run[p][q].operationsToSync[e].id)
                      = run[p][q].operationsToSync[e]

\* the change a journal record describes, made to the target store (the
\* Clear record of useTodoList.clear stands for the emptied stores)
effect(st, r) ==
    IF r.operateType \in {Operate.add, Operate.put}
    THEN [st EXCEPT ![r.key] = r.data.text]
    ELSE IF r.operateType = Operate.delete THEN [st EXCEPT ![r.key] = Absent]
    ELSE EmptyTodo

\* C11: a journaled mutation and its journal record land together: a step
\* that is a journaled mutation of p appends exactly one record to the
\* journal (to the emptied journal, when the mutation is the clear) and
\* changes the target store as that record says; no other step appends a
\* record.
C11_AtomicJournaling ==
    [][\A p \in live :
          IF nops'[p] # nops[p]
          THEN LET new == operates'[p].auto
                   r   == new[Len(new)]
               IN  /\ new # <<>>
                   /\ new = (IF r.operateType = Operate.clear THEN <<>>
                             ELSE operates[p].auto) \o <<r>>
                   /\ todoList'[p] = effect(todoList[p], r)
          ELSE operates'[p].auto = operates[p].auto]_vars

\* C11 witness: a peer has made one journaled add: the item is in the
\* store and its record, and nothing else, is in the journal
C11_Witness ==
    \E p \in live :
        /\ nops[p] = 1
        /\ Len(operates[p].auto) = 1
        /\ operates[p].auto[1].operateType = Operate.add
        /\ todoList[p][operates[p].auto[1].key] = operates[p].auto[1].data.text

entriesOf(j, id) ==
    {k \in 1..Len(getAllOperates(j)) : getAllOperates(j)[k].id = id}

\* C13: overwrite replaces in place: a record the merge loop has written
\* with idb.put(OPERATE_ID, operation, operation.id) is the one and only
\* journal entry with its id, whether the id was absent before or had been
\* appended by a journaled mutation.
C13_OverwriteInPlace ==
    \A p \in live : \A id \in DOMAIN operates[p].byId :
        /\ Cardinality(entriesOf(operates[p], id)) = 1
        /\ \A k \in entriesOf(operates[p], id) :
               getAllOperates(operates[p])[k] = operates[p].byId[id]

\* the ids of the records in a journal
journalIds(j) == {getAllOperates(j)[k].id : k \in 1..Len(getAllOperates(j))}

\* C14: the journal never loses records: no step of the application (add,
\* remove, update, clear, merge steps) takes a record id out of a peer's
\* journal.
C14_JournalOnlyGrows ==
    [][\A p \in live :
          journalIds(operates[p]) \subseteq journalIds(operates'[p])]_vars

\* ----------------------------------------------------------- P2PClient
\* The client processes followed in detail. A candidate name baseToken + i
\* is written as its index i. Names may also be held by processes outside
\* the model (Other), which accept connections like any peer.
MaxNames == 2      \* candidate names of the namespace two clients share

\* this.maxPeers: the candidates baseToken + 0 .. baseToken + (maxPeers - 1)
\* are the names the signalling server keeps
maxPeers == Cardinality(DOMAIN registry)
MaxCalls == 1      \* calls of scanAndConnect and send, repeated init

Clients == {"c1", "c2"}
Names   == 0..(maxPeers - 1)
NoPeer  == 0 - 1            \* this.peer = null
Free    == "free"
Other   == "other"

EventType ==
    [Connect |-> "Connect", Disconnect |-> "Disconnect", Data |-> "Data",
     Error |-> "Error"]

\* the events counted: Connect and Disconnect carry the remote identity
Events ==
    ({EventType.Connect, EventType.Disconnect} \X Names)
        \cup {<<EventType.Error, NoPeer>>}

\* the variables of the synchronisation, which the P2PClient never touches
syncVars == <<live, todoList, operates, msgs, run, nops, nreq>>

\* a constructed client: peer = null, connections = {}
NewClient == [pc |-> "new", i |-> 0, peer |-> NoPeer, tried |-> <<>>]
NoEntry   == [n \in {} |-> 0]
NoCall    == [client |-> "none", op |-> "none", arg |-> NoPeer, error |-> ""]

\* candidates tried from the highest index down
candidateDescending(i) == maxPeers - 1 - i

\* const id = this.baseToken + i
candidate(i) == i

\* the catch of init gives up after the first candidate
lastCandidateFirst(i) == i = 0

\* if (i === this.maxPeers - 1) throw
lastCandidate(i) == i = maxPeers - 1

\* this.connections[remote] = conn
tableSet(t, remote, k) ==
    [n \in DOMAIN t \cup {remote} |-> IF n = remote THEN k ELSE t[n]]

\* delete this.connections[remote]
tableDelete(t, remote) == [n \in DOMAIN t \ {remote} |-> t[n]]

\* this.emit(type, data)
emit(e, c, type, data) == [e EXCEPT ![c][<<type, data>>] = @ + 1]

\* this.peer.connect(id): a DataConnection of client c, known there under
\* conn.peer = id; listened tells whether setupConnectionListeners was
\* called on it
connect(c, name, id, listened) ==
    [from |-> c, fromName |-> name, to |-> id, callee |-> "none",
     a |-> "pending", b |-> "none", listened |-> listened, sent |-> 0]

\* the client at an end of a connection and the identity it sees there
endClient(cn, e) == IF e = "a" THEN cn.from ELSE cn.callee
endRemote(cn, e) == IF e = "a" THEN cn.to ELSE cn.fromName
otherEnd(e)      == IF e = "a" THEN "b" ELSE "a"
handled(cn, e)   == endClient(cn, e) \in Clients /\ (e = "b" \/ cn.listened)

RECURSIVE scanLoop(_, _, _, _, _)
\* the loop of scanAndConnect: every candidate but the own name and the
\* keys of the connection table is dialled
scanLoop(cs, c, name, table, i) ==
    IF i = maxPeers THEN cs
    ELSE IF name = i \/ i \in DOMAIN table
         THEN scanLoop(cs, c, name, table, i + 1)
         ELSE scanLoop(Append(cs, connect(c, name, i, TRUE)),
                       c, name, table, i + 1)

InitP2P ==
    /\ registry \in [0..(MaxNames - 1) -> {Free, Other}]
    /\ client = [c \in Clients |-> NewClient]
    /\ connections = [c \in Clients |-> NoEntry]
    /\ conns = <<>>
    /\ emitted = [c \in Clients |-> [e \in Events |-> 0]]
    /\ last = NoCall
    /\ ncalls = 0
    /\ live = {}
    /\ todoList = <<>>
    /\ operates = <<>>
    /\ msgs = {}
    /\ run = <<>>
    /\ nops = <<>>
    /\ nreq = 0
    /\ NoEmit

\* an init that does not look at this.peer
initUnguarded(c) ==
    /\ client[c].pc \in {"new", "ready"}
    /\ client' = [client EXCEPT ![c] =
           [@ EXCEPT !.pc = "trying", !.i = 0, !.tried = <<candidate(0)>>]]
    /\ last' = [client |-> c, op |-> "init", arg |-> NoPeer, error |-> ""]
    /\ ncalls' = IF client[c].peer # NoPeer THEN ncalls + 1 ELSE ncalls
    /\ client[c].peer # NoPeer => ncalls < MaxCalls
    /\ UNCHANGED <<registry, connections, conns, emitted>>
    /\ UNCHANGED syncVars
    /\ UNCHANGED emitVars

\* P2PClient.init, up to the first new Peer(id): a client that has a peer
\* throws; otherwise the loop starts with candidate 0
init(c) ==
    /\ client[c].pc \in {"new", "ready"}
    /\ IF client[c].peer # NoPeer
       THEN /\ ncalls < MaxCalls
            /\ ncalls' = ncalls + 1
            /\ last' = [client |-> c, op |-> "init", arg |-> NoPeer,
                        error |-> "Peer already initialized"]
            /\ UNCHANGED client
       ELSE /\ client' = [client EXCEPT ![c] =
                   [@ EXCEPT !.pc = "trying", !.i = 0,
                             !.tried = <<candidate(0)>>]]
            /\ last' = [client |-> c, op |-> "init", arg |-> NoPeer,
                        error |-> ""]
            /\ UNCHANGED ncalls
    /\ UNCHANGED <<registry, connections, conns, emitted>>
    /\ UNCHANGED syncVars
    /\ UNCHANGED emitVars

\* the signalling server registers the name new Peer(id) asked for, when
\* nobody holds it
register(c) ==
    /\ client[c].pc = "trying"
    /\ registry[candidate(client[c].i)] = Free
    /\ registry' = [registry EXCEPT ![candidate(client[c].i)] = c]
    /\ client' = [client EXCEPT ![c].pc = "granted"]
    /\ UNCHANGED <<connections, conns, emitted, last, ncalls>>
    /\ UNCHANGED syncVars
    /\ UNCHANGED emitVars

\* onOpen of createPeerIfAvailable and the rest of init: the peer listeners
\* are set, this.peer is assigned, scanAndConnect runs, init returns
peerOnOpen(c) ==
    /\ client[c].pc = "granted"
    /\ client' = [client EXCEPT ![c] =
           [@ EXCEPT !.pc = "ready", !.peer = candidate(client[c].i)]]
    /\ conns' = scanLoop(conns, c, candidate(client[c].i), connections[c], 0)
    /\ UNCHANGED <<registry, connections, emitted, last, ncalls>>
    /\ UNCHANGED syncVars
    /\ UNCHANGED emitVars

\* onError of createPeerIfAvailable (the name is taken) and the catch of
\* init: the next candidate, or the throw after the last one
peerOnError(c) ==
    /\ client[c].pc = "trying"
    /\ registry[candidate(client[c].i)] # Free
    /\ IF lastCandidate(client[c].i)
       THEN /\ client' = [client EXCEPT ![c].pc = "failed"]
            /\ last' = [client |-> c, op |-> "init", arg |-> NoPeer,
                        error |-> "All peer IDs are unavailable"]
       ELSE /\ client' = [client EXCEPT ![c] =
                   [@ EXCEPT !.i = @ + 1,
                             !.tried = Append(@, candidate(client[c].i + 1))]]
            /\ UNCHANGED last
    /\ UNCHANGED <<registry, connections, conns, emitted, ncalls>>
    /\ UNCHANGED syncVars
    /\ UNCHANGED emitVars

\* a scanAndConnect that dials every candidate but the own name, in the
\* table or not
scanAndConnectAll(c) ==
    /\ ncalls < MaxCalls
    /\ ncalls' = ncalls + 1
    /\ last' = [client |-> c, op |-> "scanAndConnect", arg |-> NoPeer,
                error |-> ""]
    /\ conns' = IF client[c].peer = NoPeer THEN conns
                ELSE conns \o
                     [j \in 1..(maxPeers - 1) |->
                         connect(c, client[c].peer,
                                 SeqOfIds(Names \ {client[c].peer})[j], TRUE)]
    /\ UNCHANGED <<registry, client, connections, emitted>>
    /\ UNCHANGED syncVars
    /\ UNCHANGED emitVars

\* P2PClient.scanAndConnect, called again after init
scanAndConnect(c) ==
    /\ ncalls < MaxCalls
    /\ ncalls' = ncalls + 1
    /\ last' = [client |-> c, op |-> "scanAndConnect", arg |-> NoPeer,
                error |-> ""]
    /\ conns' = IF client[c].peer = NoPeer THEN conns
                ELSE scanLoop(conns, c, client[c].peer, connections[c], 0)
    /\ UNCHANGED <<registry, client, connections, emitted>>
    /\ UNCHANGED syncVars
    /\ UNCHANGED emitVars

\* an offer that the dialled peer drops: the dialling end stays pending
onConnectionLost(k) ==
    /\ conns[k].a = "pending"
    /\ conns[k].b = "none"
    /\ registry[conns[k].to] # Free
    /\ conns' = [conns EXCEPT ![k].b = "closed"]
    /\ UNCHANGED <<registry, client, connections, emitted, last, ncalls>>
    /\ UNCHANGED syncVars
    /\ UNCHANGED emitVars

\* the dialled peer gets the "connection" event: onConnection of
\* setupPeerListeners calls setupConnectionListeners on its end
onConnection(k) ==
    /\ conns[k].a = "pending"
    /\ conns[k].b = "none"
    /\ registry[conns[k].to] # Free
    /\ registry[conns[k].to] \in Clients =>
           client[registry[conns[k].to]].pc = "ready"
    /\ conns' = [conns EXCEPT ![k] =
           [@ EXCEPT !.b = "pending", !.callee = registry[conns[k].to]]]
    /\ UNCHANGED <<registry, client, connections, emitted, last, ncalls>>
    /\ UNCHANGED syncVars
    /\ UNCHANGED emitVars

\* nobody holds the dialled name: the attempt ends with an error on the
\* peer, which onError of setupPeerListeners emits
peerUnavailable(k) ==
    /\ conns[k].a = "pending"
    /\ conns[k].b = "none"
    /\ registry[conns[k].to] = Free
    /\ conns' = [conns EXCEPT ![k].a = "failed"]
    /\ emitted' = emit(emitted, conns[k].from, EventType.Error, NoPeer)
    /\ UNCHANGED <<registry, client, connections, last, ncalls>>
    /\ UNCHANGED syncVars
    /\ UNCHANGED emitVars

\* an open handler that emits without entering the connection
connOnOpenNoEntry(k, e) ==
    /\ conns[k][e] = "pending"
    /\ conns[k][otherEnd(e)] \in {"pending", "open"}
    /\ conns' = [conns EXCEPT ![k][e] = "open"]
    /\ IF handled(conns[k], e)
       THEN /\ emitted' = emit(emitted, endClient(conns[k], e),
                               EventType.Connect, endRemote(conns[k], e))
            /\ UNCHANGED connections
       ELSE UNCHANGED <<connections, emitted>>
    /\ UNCHANGED <<registry, client, last, ncalls>>
    /\ UNCHANGED syncVars
    /\ UNCHANGED emitVars

\* onOpen of setupConnectionListeners, at either end of a connection
connOnOpen(k, e) ==
    /\ conns[k][e] = "pending"
    /\ conns[k][otherEnd(e)] \in {"pending", "open"}
    /\ conns' = [conns EXCEPT ![k][e] = "open"]
    /\ IF handled(conns[k], e)
       THEN /\ connections' = [connections EXCEPT ![endClient(conns[k], e)] =
                   tableSet(@, endRemote(conns[k], e), k)]
            /\ emitted' = emit(emitted, endClient(conns[k], e),
                               EventType.Connect, endRemote(conns[k], e))
       ELSE UNCHANGED <<connections, emitted>>
    /\ UNCHANGED <<registry, client, last, ncalls>>
    /\ UNCHANGED syncVars
    /\ UNCHANGED emitVars

\* onClose of setupConnectionListeners: an open end is closed, by the
\* other side or by the network
connOnClose(k, e) ==
    /\ conns[k][e] = "open"
    /\ conns' = [conns EXCEPT ![k][e] = "closed"]
    /\ IF handled(conns[k], e)
       THEN /\ connections' = [connections EXCEPT ![endClient(conns[k], e)] =
                   tableDelete(@, endRemote(conns[k], e))]
            /\ emitted' = emit(emitted, endClient(conns[k], e),
                               EventType.Disconnect, endRemote(conns[k], e))
       ELSE UNCHANGED <<connections, emitted>>
    /\ UNCHANGED <<registry, client, last, ncalls>>
    /\ UNCHANGED syncVars
    /\ UNCHANGED emitVars

\* the ends of client c that clear closes: conn.close() on the connections
\* of the table, peer.destroy() on the others
ownEnds(c, st) ==
    {ke \in (1..Len(conns)) \X {"a", "b"} :
        /\ endClient(conns[ke[1]], ke[2]) = c
        /\ conns[ke[1]][ke[2]] \in st}

\* what clear does to a client that has a peer: the connections closed,
\* each open one running its close handler, the peer destroyed
closeAll(c) ==
    /\ conns' = [k \in 1..Len(conns) |->
           [conns[k] EXCEPT
               !.a = IF <<k, "a">> \in ownEnds(c, {"pending", "open"})
                     THEN "closed" ELSE @,
               !.b = IF <<k, "b">> \in ownEnds(c, {"pending", "open"})
                     THEN "closed" ELSE @]]
    /\ emitted' = [emitted EXCEPT ![c] = [ev \in Events |->
           IF ev[1] = EventType.Disconnect
           THEN emitted[c][ev] + Cardinality({ke \in ownEnds(c, {"open"}) :
                    /\ handled(conns[ke[1]], ke[2])
                    /\ endRemote(conns[ke[1]], ke[2]) = ev[2]})
           ELSE emitted[c][ev]]]

\* a clear that closes the connections and never destroys the peer
clearClientNoDestroy(c) ==
    /\ last' = [client |-> c, op |-> "clear", arg |-> NoPeer, error |-> ""]
    /\ IF client[c].peer # NoPeer
       THEN /\ closeAll(c)
            /\ client' = [client EXCEPT ![c] =
                   [@ EXCEPT !.pc = "cleared", !.peer = NoPeer]]
            /\ UNCHANGED <<registry, ncalls>>
       ELSE /\ ncalls < MaxCalls
            /\ ncalls' = ncalls + 1
            /\ UNCHANGED <<registry, client, conns, emitted>>
    /\ connections' = [connections EXCEPT ![c] = NoEntry]
    /\ UNCHANGED syncVars
    /\ UNCHANGED emitVars

\* P2PClient.clear (window unload): with a peer, every connection is
\* closed, the close handlers run, the peer is destroyed and its name
\* released; with or without one, the table is emptied
clearClient(c) ==
    /\ last' = [client |-> c, op |-> "clear", arg |-> NoPeer, error |-> ""]
    /\ IF client[c].peer # NoPeer
       THEN /\ closeAll(c)
            /\ registry' = [registry EXCEPT ![client[c].peer] = Free]
            /\ client' = [client EXCEPT ![c] =
                   [@ EXCEPT !.pc = "cleared", !.peer = NoPeer]]
            /\ UNCHANGED ncalls
       ELSE /\ ncalls < MaxCalls
            /\ ncalls' = ncalls + 1
            /\ UNCHANGED <<registry, client, conns, emitted>>
    /\ connections' = [connections EXCEPT ![c] = NoEntry]
    /\ UNCHANGED syncVars
    /\ UNCHANGED emitVars

\* the connections of the table of c that are open at c's end
openTable(c) ==
    {k \in 1..Len(conns) :
        /\ \E n \in DOMAIN connections[c] : connections[c][n] = k
        /\ \E e \in {"a", "b"} :
              endClient(conns[k], e) = c /\ conns[k][e] = "open"}

\* a broadcast that the first failing conn.send ends
broadcastAbort(c, failing) ==
    /\ ncalls < MaxCalls
    /\ failing \subseteq openTable(c)
    /\ ncalls' = ncalls + 1
    /\ last' = [client |-> c, op |-> "broadcast", arg |-> NoPeer,
                error |-> IF failing = {} THEN "" ELSE "send failed"]
    /\ conns' = [k \in 1..Len(conns) |->
           IF k \in openTable(c) /\ \A f \in failing : k < f
           THEN [conns[k] EXCEPT !.sent = @ + 1] ELSE conns[k]]
    /\ UNCHANGED <<registry, client, connections, emitted>>
    /\ UNCHANGED syncVars
    /\ UNCHANGED emitVars

\* P2PClient.broadcast: conn.send on every open connection of the table;
\* a send that throws (the connections in failing) is emitted as Error and
\* the loop goes on
broadcast(c, failing) ==
    /\ ncalls < MaxCalls
    /\ failing \subseteq openTable(c)
    /\ ncalls' = ncalls + 1
    /\ last' = [client |-> c, op |-> "broadcast", arg |-> NoPeer,
                error |-> ""]
    /\ conns' = [k \in 1..Len(conns) |->
           IF k \in openTable(c) \ failing
           THEN [conns[k] EXCEPT !.sent = @ + 1] ELSE conns[k]]
    /\ emitted' = [emitted EXCEPT ![c][<<EventType.Error, NoPeer>>] =
                      @ + Cardinality(failing)]
    /\ UNCHANGED <<registry, client, connections>>
    /\ UNCHANGED syncVars
    /\ UNCHANGED emitVars

\* P2PClient.send of src/silence/p2p.ts: without an entry for the device
\* it dials the device; it sends on the entry when that is open; it
\* never throws
sendLegacy(c, deviceId) ==
    /\ ncalls < MaxCalls
    /\ ncalls' = ncalls + 1
    /\ last' = [client |-> c, op |-> "send", arg |-> deviceId, error |-> ""]
    /\ conns' =
         IF deviceId \notin DOMAIN connections[c]
         THEN IF client[c].peer = NoPeer THEN conns
              ELSE Append(conns, connect(c, client[c].peer, deviceId, FALSE))
         ELSE IF \E e \in {"a", "b"} :
                    /\ endClient(conns[connections[c][deviceId]], e) = c
                    /\ conns[connections[c][deviceId]][e] = "open"
              THEN [conns EXCEPT ![connections[c][deviceId]].sent = @ + 1]
              ELSE conns
    /\ UNCHANGED <<registry, client, connections, emitted>>
    /\ UNCHANGED syncVars
    /\ UNCHANGED emitVars

\* P2PClient.send: the payload goes out on the open connection of the
\* table; without one the call throws
send(c, deviceId) ==
    /\ ncalls < MaxCalls
    /\ ncalls' = ncalls + 1
    /\ IF client[c].peer = NoPeer
       THEN /\ last' = [client |-> c, op |-> "send", arg |-> deviceId,
                        error |-> "Peer not initialized"]
            /\ UNCHANGED conns
       ELSE IF /\ deviceId \in DOMAIN connections[c]
               /\ \E e \in {"a", "b"} :
                     /\ endClient(conns[connections[c][deviceId]], e) = c
                     /\ conns[connections[c][deviceId]][e] = "open"
            THEN /\ last' = [client |-> c, op |-> "send", arg |-> deviceId,
                             error |-> ""]
                 /\ conns' = [conns EXCEPT
                        ![connections[c][deviceId]].sent = @ + 1]
            ELSE /\ last' = [client |-> c, op |-> "send", arg |-> deviceId,
                             error |-> "Connection is not open"]
                 /\ UNCHANGED conns
    /\ UNCHANGED <<registry, client, connections, emitted>>
    /\ UNCHANGED syncVars
    /\ UNCHANGED emitVars

NextP2P ==
    \/ \E c \in Clients : init(c)
    \/ \E c \in Clients : register(c)
    \/ \E c \in Clients : peerOnOpen(c)
    \/ \E c \in Clients : peerOnError(c)
    \/ \E c \in Clients : scanAndConnect(c)
    \/ \E k \in 1..Len(conns) : onConnection(k)
    \/ \E k \in 1..Len(conns) : peerUnavailable(k)
    \/ \E k \in 1..Len(conns) : \E e \in {"a", "b"} : connOnOpen(k, e)
    \/ \E k \in 1..Len(conns) : \E e \in {"a", "b"} : connOnClose(k, e)
    \/ \E c \in Clients : clearClient(c)
    \/ \E c \in Clients : \E deviceId \in Names : send(c, deviceId)

SpecP2P == InitP2P /\ [][NextP2P]_vars

\* the clients with the send of src/silence/p2p.ts
NextLegacySend ==
    \/ \E c \in Clients : init(c)
    \/ \E c \in Clients : register(c)
    \/ \E c \in Clients : peerOnOpen(c)
    \/ \E c \in Clients : peerOnError(c)
    \/ \E k \in 1..Len(conns) : onConnection(k)
    \/ \E k \in 1..Len(conns) : peerUnavailable(k)
    \/ \E k \in 1..Len(conns) : \E e \in {"a", "b"} : connOnOpen(k, e)
    \/ \E k \in 1..Len(conns) : \E e \in {"a", "b"} : connOnClose(k, e)
    \/ \E c \in Clients : clearClient(c)
    \/ \E c \in Clients : \E deviceId \in Names : sendLegacy(c, deviceId)

SpecLegacySend == InitP2P /\ [][NextLegacySend]_vars

\* a process outside claims a free name and stays
comesOnline(n) ==
    /\ registry[n] = Free
    /\ registry' = [registry EXCEPT ![n] = Other]
    /\ UNCHANGED <<client, connections, conns, emitted, last, ncalls>>
    /\ UNCHANGED syncVars
    /\ UNCHANGED emitVars

\* client c has a connection, pending or open, with identity n
linked(c, n) ==
    \E k \in 1..Len(conns) : \E e \in {"a", "b"} :
        /\ endClient(conns[k], e) = c
        /\ endRemote(conns[k], e) = n
        /\ conns[k][e] \in {"pending", "open"}

\* P2PClient.scanAndConnect called again and again. Of these calls the
\* ones followed are those that find a held name to dial with which the
\* client has no connection yet, so that they are finitely many.
periodicScan(c) ==
    /\ client[c].peer # NoPeer
    /\ \E n \in Names \ {client[c].peer} :
          registry[n] # Free /\ ~linked(c, n)
    /\ last' = [client |-> c, op |-> "scanAndConnect", arg |-> NoPeer,
                error |-> ""]
    /\ conns' = scanLoop(conns, c, client[c].peer, connections[c], 0)
    /\ UNCHANGED <<registry, client, connections, emitted, ncalls>>
    /\ UNCHANGED syncVars
    /\ UNCHANGED emitVars

\* Peers come online one after the other and stay; connections, once made
\* with a live peer, open and stay open; init is called once.
NextDiscovery ==
    \/ \E c \in Clients : init(c) /\ client[c].pc = "new"
    \/ \E c \in Clients : register(c)
    \/ \E c \in Clients : peerOnOpen(c)
    \/ \E c \in Clients : peerOnError(c)
    \/ \E c \in Clients : periodicScan(c)
    \/ \E n \in Names : comesOnline(n)
    \/ \E k \in 1..Len(conns) : onConnection(k)
    \/ \E k \in 1..Len(conns) : peerUnavailable(k)
    \/ \E k \in 1..Len(conns) : \E e \in {"a", "b"} : connOnOpen(k, e)

\* scanAndConnect keeps being called, the signalling server delivers and
\* connections to a live peer open
FairDiscovery ==
    /\ WF_vars(\E c \in Clients : peerOnOpen(c))
    /\ \A c \in Clients : WF_vars(periodicScan(c))
    /\ WF_vars(\E k \in 1..Len(conns) : onConnection(k))
    /\ WF_vars(\E k \in 1..Len(conns) : \E e \in {"a", "b"} : connOnOpen(k, e))

SpecDiscovery == InitP2P /\ [][NextDiscovery]_vars /\ FairDiscovery

\* One namespace of MaxNames + 1 names, all but the first held by processes
\* outside: the client that gets the first name dials every other one and
\* stays.
InitFanOut ==
    /\ registry = [n \in 0..MaxNames |-> IF n = 0 THEN Free ELSE Other]
    /\ client = [c \in Clients |-> NewClient]
    /\ connections = [c \in Clients |-> NoEntry]
    /\ conns = <<>>
    /\ emitted = [c \in Clients |-> [e \in Events |-> 0]]
    /\ last = NoCall
    /\ ncalls = 0
    /\ live = {}
    /\ todoList = <<>>
    /\ operates = <<>>
    /\ msgs = {}
    /\ run = <<>>
    /\ nops = <<>>
    /\ nreq = 0
    /\ NoEmit

NextFanOut ==
    \/ \E c \in Clients : init(c)
    \/ \E c \in Clients : register(c)
    \/ \E c \in Clients : peerOnOpen(c)
    \/ \E c \in Clients : peerOnError(c)
    \/ \E c \in Clients : scanAndConnect(c)
    \/ \E k \in 1..Len(conns) : onConnection(k)
    \/ \E k \in 1..Len(conns) : \E e \in {"a", "b"} : connOnOpen(k, e)
    \/ \E k \in 1..Len(conns) : \E e \in {"a", "b"} : connOnClose(k, e)
    \/ \E c \in Clients : \E failing \in SUBSET (1..Len(conns)) :
           broadcast(c, failing)

SpecFanOut == InitFanOut /\ [][NextFanOut]_vars

\* the names the signalling server has registered for client c
held(c) == {n \in Names : registry[n] = c}

C16_NamespaceExhausted ==
    [][\A c \in Clients :
          /\ client'[c].pc = "failed" =>
                /\ client'[c].tried = [j \in 1..maxPeers |-> j - 1]
                /\ client'[c].peer = NoPeer
                /\ held(c)' = {}
                /\ connections'[c] = NoEntry
                /\ \A k \in 1..Len(conns') : conns'[k].from # c
          /\ (client[c].pc # "failed" /\ client'[c].pc = "failed") =>
                /\ registry[maxPeers - 1] # Free
                /\ last' = [client |-> c, op |-> "init", arg |-> NoPeer,
                            error |-> "All peer IDs are unavailable"]
          /\ (\A n \in Names : registry[n] = Other) =>
                client'[c].peer = NoPeer]_vars

\* C16 witness: a client's init has failed with every name claimed
C16_Witness ==
    \E c \in Clients :
        /\ client[c].pc = "failed"
        /\ \A n \in Names : registry[n] # Free

\* C17: identity uniqueness and stability: no two clients hold the same
\* identity, an initialised client holds exactly one name, its identity
\* stays the same until it shuts down, and an init called on an
\* initialised client throws and changes nothing.
C17_IdentityUniqueStable ==
    [][/\ \A c \in Clients : \A d \in Clients \ {c} :
             client'[c].peer = NoPeer \/ client'[c].peer # client'[d].peer
       /\ \A c \in Clients :
             client'[c].peer # NoPeer => held(c)' = {client'[c].peer}
       /\ \A c \in Clients :
             (client[c].peer # NoPeer /\ client'[c].pc # "cleared") =>
                 client'[c] = client[c]
       /\ (ncalls' # ncalls /\ last'.op = "init") =>
             /\ last'.error = "Peer already initialized"
             /\ UNCHANGED <<registry, client, connections, conns, emitted>>
      ]_vars

\* C17 witness: two clients hold two names, and a second init of one of
\* them has been rejected
C17_Witness ==
    /\ \A c \in Clients : client[c].pc = "ready"
    /\ client["c1"].peer # client["c2"].peer
    /\ last.op = "init"
    /\ last.error = "Peer already initialized"

\* the connections, pending or open, that client c has with identity n
linksOf(c, n) ==
    {k \in 1..Len(conns) : \E e \in {"a", "b"} :
        /\ endClient(conns[k], e) = c
        /\ endRemote(conns[k], e) = n
        /\ conns[k][e] \in {"pending", "open"}}

\* C18: no duplicate parallel connections: a client has at most one
\* connection, pending or open, with any remote identity.
C18_NoDuplicateConnections ==
    \A c \in Clients : \A n \in Names : Cardinality(linksOf(c, n)) <= 1

\* the ends of client c, with listeners set, towards identity n that go
\* from one state to another in a step
moved(c, n, old, new) ==
    {ke \in (1..Len(conns)) \X {"a", "b"} :
        /\ handled(conns'[ke[1]], ke[2])
        /\ endClient(conns'[ke[1]], ke[2]) = c
        /\ endRemote(conns'[ke[1]], ke[2]) = n
        /\ conns[ke[1]][ke[2]] = old
        /\ conns'[ke[1]][ke[2]] = new}

\* C19: connection lifecycle events: for the dialling and the dialled end
\* alike, each open of a connection emits one Connect with the remote
\* identity and leaves that identity in the table, each close emits one
\* Disconnect and leaves the identity out of the table; no other Connect
\* or Disconnect is emitted; and an attempt that fails before it opens
\* is never in the table.
C19_LifecycleEvents ==
    [][\A c \in Clients :
          /\ \A n \in Names :
                /\ emitted'[c][<<EventType.Connect, n>>] =
                      emitted[c][<<EventType.Connect, n>>]
                          + Cardinality(moved(c, n, "pending", "open"))
                /\ emitted'[c][<<EventType.Disconnect, n>>] =
                      emitted[c][<<EventType.Disconnect, n>>]
                          + Cardinality(moved(c, n, "open", "closed"))
                /\ moved(c, n, "pending", "open") # {} =>
                      n \in DOMAIN connections'[c]
                /\ moved(c, n, "open", "closed") # {} =>
                      n \notin DOMAIN connections'[c]
                /\ (n \in DOMAIN connections'[c] /\ n \notin DOMAIN connections[c])
                      => moved(c, n, "pending", "open") # {}
          /\ \A n \in DOMAIN connections'[c] :
                conns'[connections'[c][n]].a # "failed"]_vars

\* C19 witness: a connection has been opened at both ends and closed at
\* the dialled one: the dialler has the dialled identity in its table and
\* one Connect emitted, the dialled client has emitted one Connect and one
\* Disconnect and has the entry no more; another attempt has failed
C19_Witness ==
    \E k \in 1..Len(conns) : \E j \in 1..Len(conns) :
        /\ conns[k].a = "open"
        /\ conns[k].b = "closed"
        /\ conns[k].callee \in Clients
        /\ conns[k].to \in DOMAIN connections[conns[k].from]
        /\ emitted[conns[k].from][<<EventType.Connect, conns[k].to>>] = 1
        /\ emitted[conns[k].callee][<<EventType.Connect, conns[k].fromName>>] = 1
        /\ emitted[conns[k].callee][<<EventType.Disconnect, conns[k].fromName>>] = 1
        /\ conns[k].fromName \notin DOMAIN connections[conns[k].callee]
        /\ conns[j].a = "failed"

\* C20: send to a target that is not open fails without side effects: a
\* send delivers the payload when the table holds an open connection for
\* the identity; otherwise it fails with an error, delivers nothing, makes
\* no connection and leaves the connection table as it is.
C20_SendNotConnected ==
    [][(ncalls' # ncalls /\ last'.op = "send") =>
          LET c == last'.client
              deviceId == last'.arg
          IN  IF /\ deviceId \in DOMAIN connections[c]
                 /\ \E e \in {"a", "b"} :
                       /\ endClient(conns[connections[c][deviceId]], e) = c
                       /\ conns[connections[c][deviceId]][e] = "open"
              THEN /\ last'.error = ""
                   /\ conns' = [conns EXCEPT
                          ![connections[c][deviceId]].sent = @ + 1]
                   /\ connections' = connections
              ELSE /\ last'.error # ""
                   /\ conns' = conns
                   /\ connections' = connections]_vars

\* C21: broadcast is best-effort: a broadcast sends the payload once on
\* every connection of the table that is open and on no other; each open
\* connection either gets the payload or has its failure emitted as Error,
\* whatever the other connections do; the call itself does not fail and
\* leaves the table alone.
C21_BroadcastBestEffort ==
    [][(ncalls' # ncalls /\ last'.op = "broadcast") =>
          LET c == last'.client
          IN  /\ last'.error = ""
              /\ connections' = connections
              /\ Len(conns') = Len(conns)
              /\ \A k \in 1..Len(conns) :
                    /\ conns' [k] = [conns[k] EXCEPT !.sent = conns'[k].sent]
                    /\ conns'[k].sent = conns[k].sent
                          \/ (k \in openTable(c)
                                /\ conns'[k].sent = conns[k].sent + 1)
              /\ Cardinality({k \in openTable(c) :
                                 conns'[k].sent = conns[k].sent}) =
                    emitted'[c][<<EventType.Error, NoPeer>>]
                        - emitted[c][<<EventType.Error, NoPeer>>]]_vars

\* C21 witness: after a broadcast of a client with two open connections in
\* its table, the send on the first has failed and the second has the
\* payload
C21_Witness ==
    \E c \in Clients : \E k \in openTable(c) : \E j \in openTable(c) :
        /\ last = [client |-> c, op |-> "broadcast", arg |-> NoPeer,
                   error |-> ""]
        /\ k < j
        /\ conns[k].sent = 0
        /\ conns[j].sent = 1
        /\ emitted[c][<<EventType.Error, NoPeer>>] = 1

scans(c) ==
    \/ ncalls' # ncalls /\ last'.op = "scanAndConnect" /\ last'.client = c
    \/ client[c].pc = "granted" /\ client'[c].pc = "ready"

connOpenUseSync(p, q) ==
    /\ q # p
    /\ q \notin connections[p]
    /\ connections' = [connections EXCEPT ![p] = @ \cup {q}]
    /\ UNCHANGED <<live, todoList, operates, msgs, run, nops, nreq>>
    /\ UNCHANGED p2pVars
    /\ UNCHANGED emitVars

NextUseSync ==
    \/ \E p \in live, k \in Keys, text \in Texts, id \in Ids, ts \in Ts :
           add(p, k, text, id, ts)
    \/ \E p \in live, k \in Keys, id \in Ids, ts \in Ts : remove(p, k, id, ts)
    \/ \E p \in live, k \in Keys, text \in Texts, id \in Ids, ts \in Ts :
           update(p, k, text, id, ts)
    \/ \E p \in live, id \in Ids, ts \in Ts : clear(p, id, ts)
    \/ \E p \in live : \E q \in live \ {p} : connOpenUseSync(p, q)
    \/ \E p \in live : sync(p)
    \/ \E m \in msgs : dataHandlerRequest(m)
    \/ \E m \in msgs : dataHandlerResponse(m)
    \/ \E p \in live : \E q \in live \ {p} : applyStep(p, q)
    \/ \E p \in live : \E q \in live \ {p} : overwriteStep(p, q)

SpecUseSync == Init /\ [][NextUseSync]_vars

\* C25: sync is triggered by connect: every step in which the connection
\* with a remote identity q opens at p (the Connect event for q) sends a
\* Request with id "operates", from p, to q.
C25_SyncOnConnect ==
    [][\A p \in live : \A q \in live \ {p} :
          (q \notin connections[p] /\ q \in connections'[p]) =>
              /\ Request(p, q) \in msgs'
              /\ Request(p, q) \notin msgs
              /\ Request(p, q).id = OPERATE_ID
              /\ nreq' > nreq]_vars

\* ----------------------------------------------- dataHandler, any message
MaxMsgs == 2       \* messages that arrive from outside in one behaviour

\* the resource ids that arrive: a store, or a store and a key
ResourceIds == {"operates", "todoList", "todoList/t1", "todoList/"}

\* id.split('/') on the resource ids
split(id) ==
    CASE id = "operates"    -> <<"operates">>
      [] id = "todoList"    -> <<"todoList">>
      [] id = "todoList/t1" -> <<"todoList", "t1">>
      [] id = "todoList/"   -> <<"todoList", "">>

\* const [storeName, key] = id.split('/')
storeNameOf(id) == split(id)[1]
keyOf(id) == IF Len(split(id)) >= 2 THEN split(id)[2] ELSE Undefined

\* the payload of a message: an array, an object, or nothing
Arr(s) == [kind |-> "array", value |-> s]
Obj(v) == [kind |-> "object", value |-> <<v>>]
Undef  == [kind |-> "undefined", value |-> <<>>]

RECURSIVE itemsOf(_, _)
\* the items of the store under the keys ks, in key order
itemsOf(st, ks) ==
    IF ks = {} THEN <<>>
    ELSE LET k == CHOOSE x \in ks : TRUE
         IN  <<[id |-> k, text |-> st[k]]>> \o itemsOf(st, ks \ {k})

\* SilenceIDB.getAll: store.getAll()
idbGetAll(d, storeName) ==
    IF storeName = OPERATE_ID THEN Arr(getAllOperates(d.operates))
    ELSE Arr(itemsOf(d.todoList, {k \in Keys : d.todoList[k] # Absent}))

\* SilenceIDB.get: store.get(key), undefined when nothing is stored there
idbGet(d, storeName, key) ==
    IF storeName = TODO /\ key \in Keys /\ d.todoList[key] # Absent
    THEN Obj([id |-> key, text |-> d.todoList[key]])
    ELSE Undef

\* a handler that answers every Request with the whole store
requestedAll(d, id) == idbGetAll(d, storeNameOf(id))

\* key ? idb.get(storeName, key) : idb.getAll(storeName)
requested(d, id) ==
    IF keyOf(id) # Undefined /\ keyOf(id) # ""
    THEN idbGet(d, storeNameOf(id), keyOf(id))
    ELSE idbGetAll(d, storeNameOf(id))

\* a message; no tells the messages on the wire apart: the messages that
\* arrive from outside are numbered from 1, the Response to message n is -n
Msg(type, id, from, to, operate, data) ==
    [type |-> type, id |-> id, from |-> from, to |-> to, operate |-> operate,
     data |-> data, no |-> 0]

\* the messages a connected peer sends: Requests for a resource, Responses
\* with a journal, Responses that carry one operation on the todo list
Arriving(from, to) ==
    {Msg(MsgType.requst, id, from, to, Undefined, Undef) : id \in ResourceIds}
    \cup {Msg(MsgType.response, OPERATE_ID, from, to, Undefined, Arr(j)) :
            j \in {<<>>, getAllOperates(
                journaledAdd(EmptyDb, [id |-> "t1", text |-> "eggs"],
                             MaxId, MaxTs).operates)}}
    \cup {Msg(MsgType.response, id, from, to, op,
              Obj([id |-> "t1", text |-> text])) :
            id \in ResourceIds \ {OPERATE_ID}, op \in {Operate.add, Operate.put},
            text \in Texts}
    \cup {Msg(MsgType.response, id, from, to, op, Undef) :
            id \in ResourceIds \ {OPERATE_ID},
            op \in {Operate.delete, Operate.clear}}

\* onData of setupConnectionListeners: a message of the peer at the other
\* end of an open connection arrives and Data is emitted
onData(m) ==
    /\ nreq < MaxMsgs
    /\ m.from \in connections[m.to]
    /\ msgs' = msgs \cup {[m EXCEPT !.no = nreq + 1]}
    /\ nreq' = nreq + 1
    /\ UNCHANGED <<live, todoList, operates, connections, run, nops>>
    /\ UNCHANGED p2pVars
    /\ UNCHANGED emitVars

\* the mutation of dataHandler for a Response: add and put are the two
\* values of operate it looks at
single(d, m) ==
    IF m.operate = Operate.add
    THEN [d EXCEPT !.todoList = idbAdd(@, m.data.value[1]).st]
    ELSE IF m.operate = Operate.put
    THEN [d EXCEPT !.todoList = idbPut(@, m.data.value[1], keyOf(m.id)).st]
    ELSE d

\* dataHandler: the handler of Data. A Request is answered with the
\* contents asked for; a Response with id 'operates' starts diff, and a
\* Response with operate add or put is applied with recordOperate: false.
dataHandler(m) ==
    /\ m \in msgs
    /\ m.from \in connections[m.to]
    /\ IF m.type = MsgType.requst
       THEN /\ msgs' = (msgs \ {m}) \cup
                   {[Msg(MsgType.response, m.id, m.to, m.from, Undefined,
                         requested(db(m.to), m.id)) EXCEPT !.no = 0 - m.no]}
            /\ UNCHANGED <<todoList, operates, run>>
       ELSE /\ msgs' = msgs \ {m}
            /\ IF m.id = OPERATE_ID
               THEN /\ run[m.to][m.from].pc \in {"idle", "done"}
                    /\ run' = [run EXCEPT ![m.to][m.from] =
                                  started(@, db(m.to), m.data.value)]
               ELSE run' = IF single(db(m.to), m) # db(m.to)
                           THEN disturb(run, m.to, m.to) ELSE run
            /\ todoList' = [todoList EXCEPT ![m.to] =
                               single(db(m.to), m).todoList]
            /\ operates' = [operates EXCEPT ![m.to] =
                               single(db(m.to), m).operates]
    /\ UNCHANGED <<live, connections, nops, nreq>>
    /\ UNCHANGED p2pVars
    /\ UNCHANGED emitVars

\* Two connected peers. Each holds nothing, or t1 = milk that it added, or
\* t1 = milk merged from the journal of the peer that added it.
InitMessages ==
    \E kindA \in 0..2, kindB \in 0..2 :
        LET made   == journaledAdd(EmptyDb, [id |-> "t1", text |-> "milk"], 1, 1)
            pulled == diff(EmptyDb, getAllOperates(made.operates))
            pick(n) == IF n = 0 THEN EmptyDb ELSE IF n = 1 THEN made ELSE pulled
        IN  /\ live = {"p1", "p2"}
            /\ todoList = [p \in {"p1", "p2"} |->
                   IF p = "p1" THEN pick(kindA).todoList ELSE pick(kindB).todoList]
            /\ operates = [p \in {"p1", "p2"} |->
                   IF p = "p1" THEN pick(kindA).operates ELSE pick(kindB).operates]
            /\ connections = [p \in {"p1", "p2"} |-> {"p1", "p2"} \ {p}]
            /\ msgs = {}
            /\ run = [p \in {"p1", "p2"} |->
                         [q \in {"p1", "p2"} \ {p} |-> IdleRun]]
            /\ nops = [p \in {"p1", "p2"} |-> MaxOps]
            /\ nreq = 0
            /\ NoP2P

NextMessages ==
    \/ \E p \in live : \E q \in live \ {p} : \E m \in Arriving(q, p) : onData(m)
    \/ \E m \in msgs : dataHandler(m)
    \/ \E p \in live : \E q \in live \ {p} : applyStep(p, q)
    \/ \E p \in live : \E q \in live \ {p} : overwriteStep(p, q)

SpecMessages == InitMessages /\ [][NextMessages]_vars

\* the contents a Request for id asks of the database d, read off the
\* stores: the journal, every item, or the item under the key
contents(d, id) ==
    IF id = "operates" THEN Arr(getAllOperates(d.operates))
    ELSE IF id = "todoList"
    THEN Arr(IF d.todoList["t1"] = Absent THEN <<>>
             ELSE <<[id |-> "t1", text |-> d.todoList["t1"]]>>)
    ELSE IF d.todoList["t1"] = Absent THEN Undef
    ELSE Obj([id |-> "t1", text |-> d.todoList["t1"]])

\* C26: a Request is answered with the requested contents: the step that
\* handles Request{id, from, to}, id a store or a store and a key, sends
\* exactly one message, a Response with the same id, from and to swapped,
\* whose data is the value under the key (store/key) or the full contents
\* of the store (store), and changes no store.
C26_RequestAnswered ==
    [][\A m \in msgs :
          (m.type = MsgType.requst /\ m \notin msgs' /\ m.id # "todoList/") =>
              /\ \E r \in msgs' \ msgs :
                    /\ msgs' = (msgs \ {m}) \cup {r}
                    /\ r.type = MsgType.response
                    /\ r.id = m.id
                    /\ r.from = m.to
                    /\ r.to = m.from
                    /\ r.data = contents(db(m.to), m.id)
              /\ todoList' = todoList
              /\ operates' = operates]_vars

\* a point lookup and a full scan of a store that holds t1 have both been
\* answered
C26_Witness ==
    /\ \E r \in msgs : /\ r.type = MsgType.response
                       /\ r.id = "todoList/t1"
                       /\ r.data.kind = "object"
                       /\ r.data.value[1].text = todoList[r.from]["t1"]
    /\ \E r \in msgs : /\ r.type = MsgType.response
                       /\ r.id = "todoList"
                       /\ r.data.kind = "array"
                       /\ Len(r.data.value) = 1

\* the todo list after the one mutation a Response carries: the item of
\* data added (when its key is free) or put, the key of the id deleted, or
\* the store cleared
mutated(st, m) ==
    IF m.operate = Operate.add
    THEN (IF st[m.data.value[1].id] = Absent
          THEN [st EXCEPT ![m.data.value[1].id] = m.data.value[1].text]
          ELSE st)
    ELSE IF m.operate = Operate.put
    THEN [st EXCEPT ![m.data.value[1].id] = m.data.value[1].text]
    ELSE IF m.operate = Operate.delete
    THEN (IF m.id = "todoList/t1" THEN [st EXCEPT !["t1"] = Absent] ELSE st)
    ELSE EmptyTodo

\* C27: single-operation Response: the step that handles a Response whose
\* operate field is set (Add, Put, Delete or Clear) and whose id names the
\* todo list applies that one mutation to the store, writes no journal
\* record and starts no diff.
C27_SingleOperation ==
    [][\A m \in msgs :
          (/\ m.type = MsgType.response
           /\ m.operate # Undefined
           /\ m \notin msgs') =>
              /\ todoList' = [todoList EXCEPT ![m.to] = mutated(@, m)]
              /\ operates' = operates
              /\ \A q \in live \ {m.to} : run'[m.to][q].n = run[m.to][q].n]_vars

\* ------------------------------------------------------ on / off / emit
\* One emitter (P2PClient and SilenceIDB share the code of on, off and
\* emit), three handlers and two event types.
Handlers == {"h1", "h2", "h3"}
Emitted  == {EventType.Connect, EventType.Data}

\* no emit yet
NoEmitYet == [type |-> "", calls |-> <<>>, logged |-> 0, failed |-> FALSE,
              tick |-> 0]

\* Set.prototype.add: a Set keeps insertion order and holds a value once
setAdd(set, h) ==
    IF \E i \in 1..Len(set) : set[i] = h THEN set ELSE Append(set, h)

\* Set.prototype.delete
setDelete(set, h) == SelectSeq(set, LAMBDA x : x # h)

\* Map.prototype.delete on the handlers map
withoutType(map, type) == [t \in DOMAIN map \ {type} |-> map[t]]

RECURSIVE dispatchAbort(_, _)
\* a forEach without the try: the first handler that throws ends it and
\* the exception leaves emit
dispatchAbort(set, throwing) ==
    IF set = <<>> THEN [calls |-> <<>>, logged |-> 0, failed |-> FALSE]
    ELSE IF Head(set) \in throwing
    THEN [calls |-> <<Head(set)>>, logged |-> 0, failed |-> TRUE]
    ELSE [dispatchAbort(Tail(set), throwing) EXCEPT
             !.calls = <<Head(set)>> \o @]

RECURSIVE dispatch(_, _)
\* handlers.forEach(handler => { try { handler(data) } catch (error) {
\* console.error(...) } }): the handlers of throwing throw
dispatch(set, throwing) ==
    IF set = <<>> THEN [calls |-> <<>>, logged |-> 0, failed |-> FALSE]
    ELSE [dispatch(Tail(set), throwing) EXCEPT
             !.calls = <<Head(set)>> \o @,
             !.logged = @ + (IF Head(set) \in throwing THEN 1 ELSE 0)]

InitEmit ==
    /\ handlers = [t \in {} |-> <<>>]
    /\ invoked = NoEmitYet
    /\ registry = <<>>
    /\ client = <<>>
    /\ connections = <<>>
    /\ conns = <<>>
    /\ emitted = <<>>
    /\ last = <<>>
    /\ ncalls = 0
    /\ live = {}
    /\ todoList = <<>>
    /\ operates = <<>>
    /\ msgs = {}
    /\ run = <<>>
    /\ nops = <<>>
    /\ nreq = 0

\* on(eventType, handler)
on(type, h) ==
    /\ handlers' = [t \in DOMAIN handlers \cup {type} |->
                       IF t = type
                       THEN setAdd(IF type \in DOMAIN handlers
                                   THEN handlers[type] ELSE <<>>, h)
                       ELSE handlers[t]]
    /\ UNCHANGED <<invoked, connections>>
    /\ UNCHANGED syncVars
    /\ UNCHANGED p2pVars

\* off(eventType, handler)
off(type, h) ==
    /\ type \in DOMAIN handlers
    /\ handlers' = [handlers EXCEPT ![type] = setDelete(@, h)]
    /\ UNCHANGED <<invoked, connections>>
    /\ UNCHANGED syncVars
    /\ UNCHANGED p2pVars

\* off(eventType) with no handler: the entry of the type is deleted
offAll(type) ==
    /\ handlers' = withoutType(handlers, type)
    /\ UNCHANGED <<invoked, connections>>
    /\ UNCHANGED syncVars
    /\ UNCHANGED p2pVars

\* emit(eventType, data), run to its end; the handlers of throwing throw
emitTo(type, throwing) ==
    /\ LET done == IF type \in DOMAIN handlers
                   THEN dispatch(handlers[type], throwing)
                   ELSE [calls |-> <<>>, logged |-> 0, failed |-> FALSE]
       IN  invoked' = [type |-> type, calls |-> done.calls,
                       logged |-> done.logged, failed |-> done.failed,
                       tick |-> 1 - invoked.tick]
    /\ UNCHANGED <<handlers, connections>>
    /\ UNCHANGED syncVars
    /\ UNCHANGED p2pVars

NextEmit ==
    \/ \E type \in Emitted, h \in Handlers : on(type, h)
    \/ \E type \in Emitted, h \in Handlers : off(type, h)
    \/ \E type \in Emitted : offAll(type)
    \/ \E type \in Emitted, throwing \in SUBSET Handlers : emitTo(type, throwing)

SpecEmit == InitEmit /\ [][NextEmit]_vars

\* C28: event dispatch isolation: an emit invokes every handler subscribed
\* to the event type at that moment exactly once, within the step and in
\* subscription order, whichever handlers throw, and does not fail.
C28_DispatchIsolation ==
    [][invoked' # invoked =>
          LET subscribed == IF invoked'.type \in DOMAIN handlers
                            THEN handlers[invoked'.type] ELSE <<>>
          IN  /\ invoked'.calls = subscribed
              /\ \A h \in Handlers :
                    Cardinality({i \in 1..Len(invoked'.calls) :
                                    invoked'.calls[i] = h})
                    = (IF h \in Range(subscribed) THEN 1 ELSE 0)
              /\ ~invoked'.failed]_vars

\* an emit to three handlers of which the first two threw
C28_Witness ==
    /\ Len(invoked.calls) = 3
    /\ invoked.logged = 2
    /\ ~invoked.failed
    /\ invoked.calls = <<"h2", "h3", "h1">>

\* C29: timestamp-ordered application: a call of diff goes through its
\* selected records one at a time, in non-decreasing timestamp order; the
\* mutation of the target store for a record comes before the journal
\* overwrite of that record, and the overwrite is made only when the
\* mutation has succeeded.
C29_TimestampOrder ==
    [][\A p \in live : \A q \in live \ {p} :
          LET r  == run[p][q]
              r2 == run'[p][q]
              op == r.operationsToSync[r.i]
          IN  /\ r2.pc \in {"apply", "overwrite"} =>
                    \A j \in 1..(r2.i - 1) :
                        r2.operationsToSync[j].timestamp
                            <= r2.operationsToSync[r2.i].timestamp
              /\ (r.pc \in {"apply", "overwrite"} /\ r2 # r) =>
                    /\ r2.operationsToSync = r.operationsToSync
                    /\ r2.n = r.n
              /\ (r.pc = "apply" /\ r2 # r) =>
                    IF applyOperation(todoList[p], op).ok
                    THEN /\ r2.pc = "overwrite"
                         /\ r2.i = r.i
                         /\ todoList'[p] = applyOperation(todoList[p], op).st
                         /\ operates'[p] = operates[p]
                    ELSE /\ r2.i = r.i + 1
                         /\ r.i \in r2.failed
                         /\ todoList'[p] = todoList[p]
                         /\ operates'[p] = operates[p]
              /\ (r.pc = "overwrite" /\ r2 # r) =>
                    /\ r2.i = r.i + 1
                    /\ r.i \notin r2.failed
                    /\ todoList'[p] = todoList[p]
                    /\ operates'[p] = putOperate(operates[p], op, op.id)
              /\ operates'[p] # operates[p] => r.pc = "overwrite"]_vars

\* a call of diff that sorted a local record between the remote ones has
\* gone through four records, one of which was rejected
C29_Witness ==
    \E p \in live : \E q \in live \ {p} :
        /\ run[p][q].pc = "done"
        /\ Len(run[p][q].operationsToSync) = 4
        /\ run[p][q].operationsToSync[2].operateType = Operate.clear
        /\ run[p][q].operationsToSync[1].timestamp
               < run[p][q].operationsToSync[2].timestamp
        /\ run[p][q].failed # {}
        /\ \E i \in 1..4 : i \notin run[p][q].failed
        /\ \A i \in 1..4 :
              i \in run[p][q].failed =>
                  run[p][q].operationsToSync[i].id \notin DOMAIN operates[p].byId

\* ------------------------------------------------- the value diff returns
\* a count of the applications that were not rejected
returnedApplied(round) ==
    Len(round.operationsToSync) - Cardinality(round.failed)

\* step 6: return operationsToSync.length
returned(round) == Len(round.operationsToSync)

\* the record a Map filled from records holds for id: the last one
latest(records, id) ==
    records[CHOOSE i \in 1..Len(records) :
                /\ records[i].id = id
                /\ \A j \in (i + 1)..Len(records) : records[j].id # id]

\* The records steps 3.1 to 3.3 select, counted from the two journals: the
\* ids one side lacks, the ids both have with different timestamps, and the
\* ids both have where exactly one record is a delete.
needingSync(localRecords, remoteRecords) ==
    LET l == {localRecords[i].id : i \in 1..Len(localRecords)}
        r == {remoteRecords[i].id : i \in 1..Len(remoteRecords)}
    IN  Cardinality(r \ l) + Cardinality(l \ r)
        + Cardinality({id \in l \cap r :
              latest(localRecords, id).timestamp
                  # latest(remoteRecords, id).timestamp})
        + Cardinality({id \in l \cap r :
              (latest(localRecords, id).operateType = Operate.delete)
                  # (latest(remoteRecords, id).operateType = Operate.delete)})

\* C30 as stated: the number a call of diff returns is the number of
\* operations it applied to the local store, each winning record counted
\* once and the rejected ones not counted.
C30_ReturnedApplied ==
    \A p \in live : \A q \in live \ {p} :
        (run[p][q].n > 0 /\ run[p][q].pc = "done") =>
            returned(run[p][q])
                = Cardinality({run[p][q].operationsToSync[i].id :
                      i \in (1..Len(run[p][q].operationsToSync))
                                \ run[p][q].failed})

\* C30: the number a call of diff returns is the number of records that
\* steps 3.1 to 3.3 selected for synchronisation, whether their
\* application succeeded or not.
C30_ReturnedSelected ==
    \A p \in live : \A q \in live \ {p} :
        (run[p][q].n > 0 /\ run[p][q].pc = "done") =>
            returned(run[p][q])
                = needingSync(run[p][q].localRecords,
                              run[p][q].remoteRecords)

\* a call of diff has returned 2 although one of its two applications was
\* rejected
C30_Witness ==
    \E p \in live : \E q \in live \ {p} :
        /\ run[p][q].pc = "done"
        /\ returned(run[p][q]) = 2
        /\ Cardinality(run[p][q].failed) = 1

\* C31: every operate type is applied by the merge: the step of the loop
\* that applies a selected record performs the mutation its operateType
\* names on the todo list: an Add of a free key and a Put store the item, a
\* Delete removes the key, a Clear empties the store.
C31_EveryOperateType ==
    [][\A p \in live : \A q \in live \ {p} :
          (run[p][q].pc = "apply" /\ run'[p][q] # run[p][q]) =>
              LET operation == run[p][q].operationsToSync[run[p][q].i]
              IN  /\ (operation.operateType = Operate.add
                        /\ todoList[p][operation.key] = Absent) =>
                         todoList'[p][operation.key] = operation.data.text
                  /\ operation.operateType = Operate.put =>
                         todoList'[p][operation.key] = operation.data.text
                  /\ operation.operateType = Operate.delete =>
                         todoList'[p][operation.key] = Absent
                  /\ operation.operateType = Operate.clear =>
                         todoList'[p] = EmptyTodo]_vars

journalRecords(j) == Range(getAllOperates(j))

\* C33: merge creates no new journal entries: a step of the merge leaves
\* in the journals only records that were in a journal before, with their
\* ids and timestamps; when a call of diff has returned, every record of
\* the local journal is a record the local journal had before the call or
\* a record of the remote journal received, so that the ids of the two
\* journals never grow by synchronising.
C33_NoNewEntries ==
    /\ [][\A p \in live :
             nops'[p] = nops[p] =>
                 journalRecords(operates'[p]) \subseteq
                     UNION {journalRecords(operates[b]) : b \in live}
                     \cup UNION {Range(run[p][b].remoteRecords) :
                                    b \in live \ {p}}]_vars
    /\ [](\A p \in live : \A q \in live \ {p} :
             Clean(run[p][q]) =>
                 /\ journalRecords(operates[p]) \subseteq
                        journalRecords(run[p][q].before.operates)
                        \cup Range(run[p][q].remoteRecords)
                 /\ journalIds(operates[p]) \subseteq
                        journalIds(run[p][q].before.operates)
                        \cup {run[p][q].remoteRecords[i].id :
                                 i \in 1..Len(run[p][q].remoteRecords)})

\* a call of diff has returned and the local journal holds a record of the
\* remote journal that it lacked before, as it was received
C33_Witness ==
    \E p \in live : \E q \in live \ {p} :
        /\ Clean(run[p][q])
        /\ \E r \in Range(run[p][q].remoteRecords) :
              /\ r.id \notin journalIds(run[p][q].before.operates)
              /\ r \in journalRecords(operates[p])

\* C34: the connection table matches the live links: the table of a client
\* has an entry for a remote identity if and only if a connection with that
\* identity has opened at the client and not closed.
C34_TableMatchesLinks ==
    \A c \in Clients : \A n \in Names :
        (n \in DOMAIN connections[c]) <=>
            \E k \in 1..Len(conns) : \E e \in {"a", "b"} :
                /\ endClient(conns[k], e) = c
                /\ endRemote(conns[k], e) = n
                /\ conns[k][e] = "open"

RECURSIVE replayed(_, _)
\* the todo list after the changes the records describe, made one after
\* the other
replayed(st, records) ==
    IF records = <<>> THEN st
    ELSE replayed(effect(st, Head(records)), Tail(records))

\* C35: the store agrees with the journal (last writer wins): whenever no
\* merge is under way at a peer, its todo list is what replaying the
\* records of its journal in ascending timestamp order gives.
C35_StoreAgreesWithJournal ==
    \A p \in live :
        (\A q \in live \ {p} : run[p][q].pc \in {"idle", "waiting", "done"}) =>
            todoList[p] = replayed(EmptyTodo,
                              sortByTs(<<>>, getAllOperates(operates[p])))

\* ------------------------------------------- two Responses back to back
\* the databases of the three peers before p3 joins: p1 added t1 = milk at
\* timestamp 10; p2 merged p1's journal and removed t1 at timestamp 20; p3
\* is fresh
initialDb(p) ==
    LET made   == journaledAdd(EmptyDb, [id |-> "t1", text |-> "milk"], 1, 10)
        pulled == diff(EmptyDb, getAllOperates(made.operates))
    IN  IF p = "p1" THEN made
        ELSE IF p = "p2" THEN journaledDelete(pulled, "t1", 2, 20)
        ELSE EmptyDb

\* The three peers are connected with each other and no local mutation is
\* to come.
InitBackToBack ==
    /\ live = Peers
    /\ todoList = [p \in Peers |-> initialDb(p).todoList]
    /\ operates = [p \in Peers |-> initialDb(p).operates]
    /\ connections = [p \in Peers |-> Peers \ {p}]
    /\ msgs = {}
    /\ run = [p \in Peers |-> [q \in Peers \ {p} |-> IdleRun]]
    /\ nops = [p \in Peers |-> MaxOps]
    /\ nreq = 0
    /\ NoP2P

\* one peer calls reqOperates, once; the Responses of its two peers come
\* back and the two calls of diff run
NextBackToBack ==
    \/ \E p \in live : sync(p) /\ nreq = 0
    \/ \E m \in msgs : dataHandlerRequest(m)
    \/ \E m \in msgs : dataHandlerResponse(m)
    \/ \E p \in live : \E q \in live \ {p} : applyStep(p, q)
    \/ \E p \in live : \E q \in live \ {p} : overwriteStep(p, q)

SpecBackToBack == InitBackToBack /\ [][NextBackToBack]_vars

\* C36: merge rounds do not interleave: when a peer has requested the
\* journals of its two peers together and both calls of diff have returned,
\* its todo list and journal are those of running the two calls one after
\* the other, in one order or the other, from the database it had.
C36_RoundsDoNotInterleave ==
    \A p \in live :
        LET others == live \ {p}
            a == CHOOSE q \in others : TRUE
            b == CHOOSE q \in others : q # a
        IN  (/\ run[p][a].n = 1 /\ run[p][a].pc = "done"
             /\ run[p][b].n = 1 /\ run[p][b].pc = "done") =>
                \/ db(p) = diff(diff(initialDb(p), run[p][a].remoteRecords),
                                run[p][b].remoteRecords)
                \/ db(p) = diff(diff(initialDb(p), run[p][b].remoteRecords),
                                run[p][a].remoteRecords)

====
